---- MODULE Spec2Model ----
(***************************************************************************)
(* A model of libalpm-rs: the version parser and comparator                *)
(* (src/src/db/parse.rs and its older copy in src/src/db.rs) and the       *)
(* update planner update_candidates (src/src/db.rs).                       *)
(*                                                                         *)
(* Strings are sequences of one-character strings, so that parsing is      *)
(* modelled on characters.  Option<T> is <<>> (None) or <<x>> (Some(x)).   *)
(* Orderings are the strings "Less", "Equal", "Greater".                   *)
(***************************************************************************)
EXTENDS Naturals, Sequences, FiniteSets

VARIABLES
    \* ---- update planner (update_candidates) ----
    pool,       \* the shared interner: handle (index) -> string
    dbs,        \* the repository names passed to update_candidates, in order
    local,      \* local database: name handle -> Package, or Absent
    syncs,      \* per repository of dbs: its entries in the map's iteration order
    ignore,     \* the ignore list (name handles)
    pc,         \* "outer" | "inner" | "done" | "panicked"
    todo,       \* local names the outer loop has not reached yet
    cur,        \* name handle of the installed package of the running outer iteration
    ri, ei,     \* position of the inner loops: repository index, entry index
    upgrades,   \* the Vec of (dbname, from, to) pushed so far
    warned,     \* downgrade warnings logged so far
    \* ---- version comparator (versioncmp) ----
    a, b,       \* the two version strings
    cpc,        \* "input" | "done" | "panicked" | "db_done" | "db_panicked" | "idle"
    va, vb,     \* their decompositions
    ord,        \* the Ordering returned
    \* ---- versioncmp on the pairs of three strings ----
    c3,         \* the third version string
    opc,        \* "input" | "done" | "panicked" | "idle"
    ord_ba,     \* versioncmp(b, a)
    ord_bc,     \* versioncmp(b, c)
    ord_ac,     \* versioncmp(a, c)
    \* ---- descriptor parser (Package::from_str) ----
    text,       \* the descriptor text s
    debug,      \* whether the build has debug_assertions
    dpc,        \* "input" | "mapped" | "done" | "panicked" | "idle"
    dmap,       \* the map m of parse_to_map: <<>> or <<function key -> value>>
    pkg,        \* the Package returned: <<>> or <<record>>
    \* ---- database loaders (the load phase of update_candidates) ----
    files,      \* the databases on disk: ALPM_DB_VERSION and the descriptor texts
    lpc,        \* "version" | "load" | "loaded" | "shrunk" | "panicked" | "idle"
    ldb,        \* the database being loaded: 1 is local, k + 1 the k-th repository
    lidx,       \* descriptors of that database parsed so far
    lmaps,      \* per database, the map built so far: name handle -> Package
    \* ---- configuration reader (sec_kv_map) ----
    ifile,      \* the configuration file as written: its headers and lines
    itext,      \* the same file as the text i handed to sec_kv_map
    ipc,        \* "prelude" | "sections" | "done" | "idle"
    ipos,       \* the first character of i not yet consumed
    prelude,    \* the map of the lines before the first header
    isec,       \* the sections the iterator has yielded so far
    ret,        \* the Config collected so far: section -> (key -> values)
    \* ---- configuration extraction (extract_relevant_config) ----
    xin,            \* /etc/pacman.conf, the files it may include, the host architecture
    xpc,            \* "read" | "arch" | "ignores" | "repos" | "done" | "panicked" | "idle"
    pacman_config,  \* the parsed configuration, as the function has it by now
    arch,           \* the architecture selected
    ignores,        \* the ignore list
    xtodo,          \* the sections the for loop has not visited yet
    repos,          \* the map repo -> url built so far
    \* ---- task-based local loader (parse_localdb of src/src/lib.rs) ----
    nofile,     \* the open-file limit increase_nofile_limit returns
    tpc,        \* the main task: "limit" | "version" | "spawn" | "await" | "returned"
                \*   | "panicked" | "already_borrowed" | "idle"
    lim,        \* the permits the semaphore was created with
    sem,        \* the permits the semaphore has left
    futs,       \* the spawned tasks, in spawn order: their position and output
    polled,     \* the task the executor is running, 0 when none is
    borrowed    \* the live mutable borrows of the interner's RefCell

vars == <<pool, dbs, local, syncs, ignore, pc, todo, cur, ri, ei, upgrades, warned,
          a, b, cpc, va, vb, ord,
          c3, opc, ord_ba, ord_bc, ord_ac,
          text, debug, dpc, dmap, pkg,
          files, lpc, ldb, lidx, lmaps,
          ifile, itext, ipc, ipos, prelude, isec, ret,
          xin, xpc, pacman_config, arch, ignores, xtodo, repos,
          nofile, tpc, lim, sem, futs, polled, borrowed>>
plannerVars == <<pool, dbs, local, syncs, ignore, pc, todo, cur, ri, ei, upgrades, warned>>
cmpVars == <<a, b, cpc, va, vb, ord>>
ordVars == <<c3, opc, ord_ba, ord_bc, ord_ac>>
\* the state of the parts that the planner and the two-string comparator leave
\* alone
descVars == <<text, debug, dpc, dmap, pkg>>
loadVars == <<files, lpc, ldb, lidx, lmaps>>
iniVars == <<ifile, itext, ipc, ipos, prelude, isec, ret>>
confVars == <<xin, xpc, pacman_config, arch, ignores, xtodo, repos>>
taskVars == <<nofile, tpc, lim, sem, futs, polled, borrowed>>
extVars == <<ordVars, descVars, loadVars, iniVars, confVars, taskVars>>

OrdIdle == c3 = <<>> /\ opc = "idle" /\ ord_ba = "none" /\ ord_bc = "none" /\ ord_ac = "none"
DescIdle == text = <<>> /\ debug = FALSE /\ dpc = "idle" /\ dmap = <<>> /\ pkg = <<>>
LoadIdle == files = <<>> /\ lpc = "idle" /\ ldb = 0 /\ lidx = 0 /\ lmaps = <<>>
IniIdle ==
    /\ ifile = <<>> /\ itext = <<>> /\ ipc = "idle" /\ ipos = 0
    /\ prelude = <<>> /\ isec = 0 /\ ret = <<>>
ConfIdle ==
    /\ xin = <<>> /\ xpc = "idle" /\ pacman_config = <<>> /\ arch = <<>>
    /\ ignores = <<>> /\ xtodo = {} /\ repos = <<>>
TaskIdle ==
    /\ nofile = 0 /\ tpc = "idle" /\ lim = 0 /\ sem = 0
    /\ futs = <<>> /\ polled = 0 /\ borrowed = 0
ExtIdle == OrdIdle /\ DescIdle /\ LoadIdle /\ IniIdle /\ ConfIdle /\ TaskIdle

(***************************************************************************)
(* Characters                                                              *)
(***************************************************************************)
DigitSeq == <<"0", "1", "2", "3", "4", "5", "6", "7", "8", "9">>
Digits == {DigitSeq[k] : k \in 1..Len(DigitSeq)}
Letters == {"Q", "a", "b"}
AlphaNum == Digits \cup Letters

DigitVal(c) == (CHOOSE k \in 1..Len(DigitSeq) : DigitSeq[k] = c) - 1

\* the byte of an ASCII letter or digit (str's Ord compares bytes)
Byte(c) ==
    CASE c = "Q" -> 81 [] c = "a" -> 97 [] c = "b" -> 98
      [] OTHER -> 48 + DigitVal(c)

\* length of the longest prefix of i whose characters are all in S
PrefixLen(i, S) ==
    CHOOSE k \in 0..Len(i) :
        /\ \A j \in 1..k : i[j] \in S
        /\ (k = Len(i) \/ i[k + 1] \notin S)

Drop(i, k) == SubSeq(i, k + 1, Len(i))

RECURSIVE DecimalValue(_)
DecimalValue(s) ==
    IF s = <<>> THEN 0
    ELSE DecimalValue(SubSeq(s, 1, Len(s) - 1)) * 10 + DigitVal(s[Len(s)])

\* u64::from_str: Some(n) for a non-empty run of decimal digits, which one "+"
\* may precede, None otherwise (every digit run within the model's bounds is
\* far below 2^64)
u64_from_str(s) ==
    LET d == IF s # <<>> /\ s[1] = "+" THEN Tail(s) ELSE s
    IN  IF d # <<>> /\ \A j \in 1..Len(d) : d[j] \in Digits
        THEN <<DecimalValue(d)>>
        ELSE <<>>

(***************************************************************************)
(* Version = (Option<u64>, Vec<Result<&str,u64>>, Option<Vec<Result<..>>>) *)
(***************************************************************************)
\* Result<&str, u64>: a numeric segment is Err(n), any other segment Ok(text)
SegOk(s) == [kind |-> "Ok", s |-> s, n |-> 0]
SegErr(n) == [kind |-> "Err", s |-> <<>>, n |-> n]

segment_map(segment) ==
    LET r == u64_from_str(segment)
    IN  IF r # <<>> THEN SegErr(r[1]) ELSE SegOk(segment)

\* terminated(alt((alpha1, digit1)), opt(satisfy(|c| !c.is_alphanumeric())))
\* the set of characters the run starting at i[1] is taken from
segment_class(i) == IF i[1] \in Letters THEN Letters ELSE Digits

RECURSIVE many_segments(_)
many_segments(i) ==
    IF i = <<>> \/ i[1] \notin AlphaNum
    THEN [segs |-> <<>>, rem |-> i]
    ELSE LET k == PrefixLen(i, segment_class(i))
             after == Drop(i, k)
             next == IF after # <<>> /\ after[1] \notin AlphaNum
                     THEN Tail(after) ELSE after
             more == many_segments(next)
         IN  [segs |-> <<segment_map(SubSeq(i, 1, k))>> \o more.segs,
              rem |-> more.rem]

\* many1: at least one segment, else an error
version_segment_parse(i) ==
    LET r == many_segments(i)
    IN  [ok |-> r.segs # <<>>, segs |-> r.segs, rem |-> r.rem]

\* the older tokenizer of src/src/db.rs: take_while1(|c| c.is_alphanum())
RECURSIVE db_many_segments(_)
db_many_segments(i) ==
    IF i = <<>> \/ i[1] \notin AlphaNum
    THEN [segs |-> <<>>, rem |-> i]
    ELSE LET k == PrefixLen(i, AlphaNum)
             after == Drop(i, k)
             next == IF after # <<>> /\ after[1] \notin AlphaNum
                     THEN Tail(after) ELSE after
             more == db_many_segments(next)
         IN  [segs |-> <<segment_map(SubSeq(i, 1, k))>> \o more.segs,
              rem |-> more.rem]

db_version_segment_parse(i) ==
    LET r == db_many_segments(i)
    IN  [ok |-> r.segs # <<>>, segs |-> r.segs, rem |-> r.rem]

ParseError == [ok |-> FALSE, rem |-> <<>>, epoch |-> <<>>, version |-> <<>>, release |-> <<>>]

\* opt((take_while(is_numeric), char(':')).map_res(u64::from_str)):
\* the number of characters the epoch and its ':' take, 0 when there is no epoch
epoch_len(i) ==
    LET k == PrefixLen(i, Digits)
    IN  IF k < Len(i) /\ i[k + 1] = ":" /\ u64_from_str(SubSeq(i, 1, k)) # <<>>
        THEN k + 1 ELSE 0

\* i.rsplit_once('-'): the index of the last '-', 0 when there is none
rsplit_dash(i) ==
    IF \E j \in 1..Len(i) : i[j] = "-"
    THEN CHOOSE j \in 1..Len(i) : i[j] = "-" /\ \A l \in (j + 1)..Len(i) : i[l] # "-"
    ELSE 0

\* the body shared by both copies of versionparse; old selects the tokenizer of
\* src/src/db.rs
versionparse_with(i, old) ==
    LET e == epoch_len(i)
        epoch == IF e > 0 THEN u64_from_str(SubSeq(i, 1, e - 1)) ELSE <<>>
        rest == Drop(i, e)
        d == rsplit_dash(rest)
        pre == IF d > 0 THEN SubSeq(rest, 1, d - 1) ELSE rest
        post == Drop(rest, d)
        v == IF old THEN db_version_segment_parse(pre) ELSE version_segment_parse(pre)
        rel == IF old THEN db_version_segment_parse(post) ELSE version_segment_parse(post)
    IN  IF ~v.ok THEN ParseError
        ELSE IF d > 0 /\ ~rel.ok THEN ParseError
        ELSE [ok |-> TRUE,
              rem |-> IF d > 0 THEN rel.rem ELSE v.rem,
              epoch |-> epoch,
              version |-> v.segs,
              release |-> IF d > 0 THEN <<rel.segs>> ELSE <<>>]

versionparse_(i) == versionparse_with(i, FALSE)

\* versionparse_(i).finish().map(|r| r.1): the remainder is dropped
versionparse(i) == [versionparse_(i) EXCEPT !.rem = <<>>]

db_versionparse(i) == versionparse_with(i, TRUE)

(***************************************************************************)
(* The derived Ord of Version                                              *)
(***************************************************************************)
u64_cmp(x, y) == IF x < y THEN "Less" ELSE IF x > y THEN "Greater" ELSE "Equal"

\* str's Ord: lexicographic on bytes, a proper prefix is Less
RECURSIVE str_cmp(_, _)
str_cmp(s, t) ==
    IF s = <<>> /\ t = <<>> THEN "Equal"
    ELSE IF s = <<>> THEN "Less"
    ELSE IF t = <<>> THEN "Greater"
    ELSE IF Byte(s[1]) # Byte(t[1]) THEN u64_cmp(Byte(s[1]), Byte(t[1]))
    ELSE str_cmp(Tail(s), Tail(t))

\* an order on segments that puts every numeric segment below every text segment
segment_cmp_numeric_first(x, y) ==
    IF x.kind = "Ok" /\ y.kind = "Ok" THEN str_cmp(x.s, y.s)
    ELSE IF x.kind = "Err" /\ y.kind = "Err" THEN u64_cmp(x.n, y.n)
    ELSE IF x.kind = "Err" THEN "Less"
    ELSE "Greater"

\* a comparison of segments that calls the left one Less whenever the kinds
\* differ
segment_cmp_mixed_left_less(x, y) ==
    IF x.kind = "Ok" /\ y.kind = "Ok" THEN str_cmp(x.s, y.s)
    ELSE IF x.kind = "Err" /\ y.kind = "Err" THEN u64_cmp(x.n, y.n)
    ELSE "Less"

\* Result's derived Ord: every Ok is less than every Err
segment_cmp(x, y) ==
    IF x.kind = "Ok" /\ y.kind = "Ok" THEN str_cmp(x.s, y.s)
    ELSE IF x.kind = "Err" /\ y.kind = "Err" THEN u64_cmp(x.n, y.n)
    ELSE IF x.kind = "Ok" THEN "Less"
    ELSE "Greater"

\* a list order in which a proper prefix equals every list that starts with it
RECURSIVE segments_cmp_prefix_equal(_, _)
segments_cmp_prefix_equal(x, y) ==
    IF x = <<>> \/ y = <<>> THEN "Equal"
    ELSE IF segment_cmp(x[1], y[1]) # "Equal" THEN segment_cmp(x[1], y[1])
    ELSE segments_cmp_prefix_equal(Tail(x), Tail(y))

\* Vec's Ord: lexicographic, a proper prefix is Less
RECURSIVE segments_cmp(_, _)
segments_cmp(x, y) ==
    IF x = <<>> /\ y = <<>> THEN "Equal"
    ELSE IF x = <<>> THEN "Less"
    ELSE IF y = <<>> THEN "Greater"
    ELSE IF segment_cmp(x[1], y[1]) # "Equal" THEN segment_cmp(x[1], y[1])
    ELSE segments_cmp(Tail(x), Tail(y))

\* Option<u64>'s derived Ord: None is less than every Some
epoch_cmp(x, y) ==
    IF x = <<>> /\ y = <<>> THEN "Equal"
    ELSE IF x = <<>> THEN "Less"
    ELSE IF y = <<>> THEN "Greater"
    ELSE u64_cmp(x[1], y[1])

\* Option<Vec<..>>'s derived Ord
release_cmp(x, y) ==
    IF x = <<>> /\ y = <<>> THEN "Equal"
    ELSE IF x = <<>> THEN "Less"
    ELSE IF y = <<>> THEN "Greater"
    ELSE segments_cmp(x[1], y[1])

\* a tuple order that looks at release before version
version_cmp_release_first(x, y) ==
    IF epoch_cmp(x.epoch, y.epoch) # "Equal" THEN epoch_cmp(x.epoch, y.epoch)
    ELSE IF release_cmp(x.release, y.release) # "Equal"
         THEN release_cmp(x.release, y.release)
    ELSE segments_cmp(x.version, y.version)

\* the tuple's Ord: epoch, then version, then release
version_cmp(x, y) ==
    IF epoch_cmp(x.epoch, y.epoch) # "Equal" THEN epoch_cmp(x.epoch, y.epoch)
    ELSE IF segments_cmp(x.version, y.version) # "Equal"
         THEN segments_cmp(x.version, y.version)
    ELSE release_cmp(x.release, y.release)

\* versioncmp(a, b) of src/src/db/parse.rs: "panic" when an unwrap fails
versioncmp(x, y) ==
    IF ~versionparse(x).ok \/ ~versionparse(y).ok THEN "panic"
    ELSE version_cmp(versionparse(x), versionparse(y))

\* versioncmp(a, b) of src/src/db.rs
db_versioncmp(x, y) ==
    IF ~db_versionparse(x).ok \/ ~db_versionparse(y).ok THEN "panic"
    ELSE version_cmp(db_versionparse(x), db_versionparse(y))

(***************************************************************************)
(* The comparator as a state machine: versioncmp(a, b) on a pair of        *)
(* version strings drawn from a bounded set.                               *)
(***************************************************************************)
\* longest string of the exhaustive part of the inputs
MaxLen == 2

Alphabet == {"0", "1", "a", "b", ".", "-", ":"}

\* all strings over Alphabet of length at most MaxLen
ShortStrings == UNION {[1..n -> Alphabet] : n \in 0..MaxLen}

\* the version strings of tests/test_vercmp.rs and of the test of versionparse
Corpus ==
    { <<"1", ".", "4">>,
      <<"1", ".", "1", "b">>,
      <<"1", ".", "1", "b", ".", "1">>,
      <<"0", ".", "1", "5", ".", "1", "-", "2">>,
      <<"0", ".", "1", "5", ".", "1", "b", "-", "2">>,
      <<"0", ".", "1", "5", ".", "1", "b", "-", "1", "0">>,
      <<"2", "0", "2", "5", ".", "Q", "1", ".", "2", "-", "1">>,
      <<"2", "0", "2", "5", ".", "Q", "1", ".", "2", "-", "2">> }

EpochPrefixes == { <<"0", ":">>, <<"1", ":">>, <<"2", ":">> }

\* version strings with two consecutive separators, in the main part and in
\* the pkgrel part
Malformed ==
    { <<"1", ".", ".", "1">>,
      <<"1", ".", ".", "1", "-", "1">>,
      <<"1", "-", "1", ".", ".", "1">> }

Versions ==
    ShortStrings \cup Corpus \cup {e \o c : e \in EpochPrefixes, c \in Corpus}
                 \cup Malformed

NoVersion == [ok |-> FALSE, rem |-> <<>>, epoch |-> <<>>, version |-> <<>>, release |-> <<>>]

PlannerIdle ==
    /\ pool = <<>> /\ dbs = <<>> /\ local = {} /\ syncs = <<>> /\ ignore = {}
    /\ pc = "idle" /\ todo = {} /\ cur = <<>> /\ ri = 0 /\ ei = 0
    /\ upgrades = <<>> /\ warned = {}

InitCmp ==
    /\ a \in Versions
    /\ b \in Versions
    /\ cpc = "input"
    /\ va = NoVersion
    /\ vb = NoVersion
    /\ ord = "none"
    /\ PlannerIdle
    /\ ExtIdle

\* let va = versionparse(a).unwrap(); let vb = versionparse(b).unwrap(); va.cmp(&vb)
VersionCmp ==
    /\ cpc = "input"
    /\ \/ /\ ~versionparse(a).ok
          /\ cpc' = "panicked"
          /\ UNCHANGED <<va, vb, ord>>
       \/ /\ versionparse(a).ok
          /\ ~versionparse(b).ok
          /\ cpc' = "panicked"
          /\ va' = versionparse(a)
          /\ UNCHANGED <<vb, ord>>
       \/ /\ versionparse(a).ok
          /\ versionparse(b).ok
          /\ cpc' = "done"
          /\ va' = versionparse(a)
          /\ vb' = versionparse(b)
          /\ ord' = versioncmp(a, b)
    /\ UNCHANGED <<a, b>>
    /\ UNCHANGED <<plannerVars, extVars>>

\* versioncmp of src/src/db.rs, on the decompositions of its own versionparse
DbVersionCmp ==
    /\ cpc = "input"
    /\ \/ /\ ~(db_versionparse(a).ok /\ db_versionparse(b).ok)
          /\ cpc' = "db_panicked"
          /\ UNCHANGED <<va, vb, ord>>
       \/ /\ db_versionparse(a).ok
          /\ db_versionparse(b).ok
          /\ cpc' = "db_done"
          /\ va' = db_versionparse(a)
          /\ vb' = db_versionparse(b)
          /\ ord' = db_versioncmp(a, b)
    /\ UNCHANGED <<a, b>>
    /\ UNCHANGED <<plannerVars, extVars>>

NextCmp == VersionCmp \/ DbVersionCmp

SpecCmp == InitCmp /\ [][NextCmp]_vars

(***************************************************************************)
(* The update planner: update_candidates(i, dbs, ignore).  Init is the     *)
(* state after parse_localdb and parse_syncdb have filled the maps and     *)
(* the pool; the loops then run one iteration per step.  A HashMap is      *)
(* iterated in an order its inputs do not fix: the local map, iterated     *)
(* once, gives up its entries in any order, and a repository's map,        *)
(* iterated once per installed package, is a sequence in an arbitrary but  *)
(* fixed order.                                                            *)
(***************************************************************************)
\* most package records over all databases of a session
MaxPkgs == 3

\* the repository names a caller passes as dbs: any prefix of this list
RepoNames == <<"core", "extra">>
DbLists == {SubSeq(RepoNames, 1, n) : n \in 0..Len(RepoNames)}

PkgNames == << <<"X">>, <<"Y">> >>
PkgVersions ==
    << <<"1", ".", "0", "-", "1">>,
       <<"1", ".", "0", "-", "2">>,
       <<"-", "1">> >>

\* the interner once every database is loaded: handle -> string
SessionPool == PkgNames \o PkgVersions
Names == 1..Len(PkgNames)
VersionHandles == (Len(PkgNames) + 1)..Len(SessionPool)

\* QuickResolve::r
r(h) == pool[h]

\* the replaces field: None, or Some(set of name handles)
ReplacesOpts == {<<>>} \cup {<<{n}>> : n \in {CHOOSE m \in Names : SessionPool[m] = <<"X">>}}

LocalPkgs == [name : Names, version : VersionHandles, replaces : {<<>>}]
SyncPkgs == [name : Names, version : VersionHandles, replaces : ReplacesOpts]

\* a map keyed by name: no two records of one name
DistinctNames(S) == \A p \in S : \A q \in S : p.name = q.name => p = q

\* a repository's map in its iteration order
RepoMaps ==
    {<<>>} \cup {<<p>> : p \in SyncPkgs}
           \cup {s \in {<<p, q>> : p \in SyncPkgs, q \in SyncPkgs} : s[1].name # s[2].name}

RECURSIVE TotalLen(_)
TotalLen(ss) == IF ss = <<>> THEN 0 ELSE Len(ss[1]) + TotalLen(Tail(ss))

NoPkg == [name |-> 0, version |-> 0, replaces |-> <<>>]

CmpIdle ==
    /\ a = <<>> /\ b = <<>> /\ cpc = "idle"
    /\ va = NoVersion /\ vb = NoVersion /\ ord = "none"

Init ==
    /\ pool = SessionPool
    /\ dbs \in DbLists
    /\ local \in {S \in SUBSET LocalPkgs : DistinctNames(S)}
    /\ syncs \in [1..Len(dbs) -> RepoMaps]
    /\ Cardinality(local) + TotalLen(syncs) <= MaxPkgs
    /\ ignore \in SUBSET Names
    /\ pc = "outer"
    /\ todo = local
    /\ cur = NoPkg
    /\ ri = 0
    /\ ei = 0
    /\ upgrades = <<>>
    /\ warned = {}
    /\ CmpIdle
    /\ ExtIdle

\* the positions the two inner loops visit, and their order
Positions == {p \in (1..Len(syncs)) \X (1..Len(PkgNames)) : p[2] <= Len(syncs[p[1]])}
PosLess(p, q) == p[1] < q[1] \/ (p[1] = q[1] /\ p[2] < q[2])
FirstOf(S) == CHOOSE p \in S : \A q \in S : p = q \/ PosLess(p, q)
PosAfter(p) == {q \in Positions : PosLess(p, q)}

\* a filter that lets every installed package through
is_ignored_never(name) == FALSE

\* .filter(|(s, _)| !ignore.contains(s))
is_ignored(name) == name \in ignore

\* package_version.cmp(&sync_package_version), both parsed by versionparse of db.rs
package_version_cmp(package, sync_package) ==
    version_cmp(db_versionparse(r(package.version)),
                db_versionparse(r(sync_package.version)))

\* is_upgrade with the Greater arm answering true as well
is_upgrade_any_difference(package, sync_package) ==
    IF sync_package.name = package.name
    THEN package_version_cmp(package, sync_package) # "Equal"
    ELSE IF sync_package.replaces # <<>>
         THEN package.name \in sync_package.replaces[1]
         ELSE FALSE

\* is_upgrade with the replaces test ahead of the name test
is_upgrade_replaces_first(package, sync_package) ==
    IF sync_package.replaces # <<>> /\ package.name \in sync_package.replaces[1]
    THEN TRUE
    ELSE IF sync_package.name = package.name
         THEN package_version_cmp(package, sync_package) = "Less"
         ELSE FALSE

\* is_upgrade with a replacement that must be a newer version as well
is_upgrade_versioned_replace(package, sync_package) ==
    IF sync_package.name = package.name
    THEN package_version_cmp(package, sync_package) = "Less"
    ELSE IF sync_package.replaces # <<>>
         THEN /\ package.name \in sync_package.replaces[1]
              /\ package_version_cmp(package, sync_package) = "Less"
         ELSE FALSE

\* is_upgrade without the replaces arm
is_upgrade_same_name_only(package, sync_package) ==
    /\ sync_package.name = package.name
    /\ package_version_cmp(package, sync_package) = "Less"

\* the value of is_upgrade for an installed package and a repository entry
is_upgrade(package, sync_package) ==
    IF sync_package.name = package.name
    THEN package_version_cmp(package, sync_package) = "Less"
    ELSE IF sync_package.replaces # <<>>
         THEN package.name \in sync_package.replaces[1]
         ELSE FALSE

\* a push that keeps only the first repository's triple of an installed package
push_upgrade_first_wins(upgs, dbname, package, sync_package) ==
    IF /\ is_upgrade(package, sync_package)
       /\ ~\E k \in 1..Len(upgs) : upgs[k][2] = package /\ upgs[k][1] # dbname
    THEN Append(upgs, <<dbname, package, sync_package>>)
    ELSE upgs

\* if is_upgrade { upgrades.push((**dbname, package.clone(), sync_package.clone())) }
push_upgrade(upgs, dbname, package, sync_package) ==
    IF is_upgrade(package, sync_package)
    THEN Append(upgs, <<dbname, package, sync_package>>)
    ELSE upgs

\* the Greater arm: log::warn!("downgrade? ...")
is_downgrade(package, sync_package) ==
    /\ sync_package.name = package.name
    /\ package_version_cmp(package, sync_package) = "Greater"

\* an abort that hands back the triples pushed so far
PanicKeepingTriples ==
    /\ pc' = "panicked"
    /\ UNCHANGED upgrades
    /\ cur' = NoPkg
    /\ ri' = 0
    /\ ei' = 0

\* an unwrap of a failed parse unwinds: the Vec is dropped, nothing is returned
Panic ==
    /\ pc' = "panicked"
    /\ upgrades' = <<>>
    /\ cur' = NoPkg
    /\ ri' = 0
    /\ ei' = 0

\* the head of the outer loop: the next entry of local that passes the filter,
\* and the parse of its version
NextLocal ==
    /\ pc = "outer"
    /\ \E package \in todo :
        /\ todo' = todo \ {package}
        /\ \/ /\ is_ignored(package.name)
              /\ UNCHANGED <<pc, cur, ri, ei, upgrades>>
           \/ /\ ~is_ignored(package.name)
              /\ ~db_versionparse(r(package.version)).ok
              /\ Panic
           \/ /\ ~is_ignored(package.name)
              /\ db_versionparse(r(package.version)).ok
              /\ Positions = {}
              /\ UNCHANGED <<pc, cur, ri, ei, upgrades>>
           \/ /\ ~is_ignored(package.name)
              /\ db_versionparse(r(package.version)).ok
              /\ Positions # {}
              /\ pc' = "inner"
              /\ cur' = package
              /\ ri' = FirstOf(Positions)[1]
              /\ ei' = FirstOf(Positions)[2]
              /\ UNCHANGED upgrades
    /\ UNCHANGED <<pool, dbs, local, syncs, ignore, warned>>
    /\ UNCHANGED <<cmpVars, extVars>>

\* one pass of the innermost loop body, then the step to the next entry
VisitSync ==
    /\ pc = "inner"
    /\ LET sync_package == syncs[ri][ei]
           rest == PosAfter(<<ri, ei>>)
       IN  \/ /\ sync_package.name = cur.name
              /\ ~db_versionparse(r(sync_package.version)).ok
              /\ Panic
              /\ UNCHANGED warned
           \/ /\ ~(sync_package.name = cur.name
                   /\ ~db_versionparse(r(sync_package.version)).ok)
              /\ upgrades' = push_upgrade(upgrades, dbs[ri], cur, sync_package)
              /\ warned' = IF is_downgrade(cur, sync_package)
                           THEN warned \cup {<<cur, sync_package>>}
                           ELSE warned
              /\ IF rest = {}
                 THEN pc' = "outer" /\ cur' = NoPkg /\ ri' = 0 /\ ei' = 0
                 ELSE /\ pc' = "inner"
                      /\ cur' = cur
                      /\ ri' = FirstOf(rest)[1]
                      /\ ei' = FirstOf(rest)[2]
    /\ UNCHANGED <<pool, dbs, local, syncs, ignore, todo>>
    /\ UNCHANGED <<cmpVars, extVars>>

\* the outer loop is exhausted: upgrades is returned
Return ==
    /\ pc = "outer"
    /\ todo = {}
    /\ pc' = "done"
    /\ UNCHANGED <<pool, dbs, local, syncs, ignore, todo, cur, ri, ei, upgrades, warned>>
    /\ UNCHANGED <<cmpVars, extVars>>

Next == NextLocal \/ VisitSync \/ Return

Spec == Init /\ [][Next]_vars

(***************************************************************************)
(* Properties of the update planner                                        *)
(***************************************************************************)
HandleOf(str) == CHOOSE h \in DOMAIN pool : pool[h] = str
Replaces(q, name) == q.replaces # <<>> /\ name \in q.replaces[1]
Parses(p) == db_versionparse(r(p.version)).ok
SyncEntries == {syncs[p[1]][p[2]] : p \in Positions}
Triples == {upgrades[k] : k \in 1..Len(upgrades)}
Occurrences(t) == Cardinality({k \in 1..Len(upgrades) : upgrades[k] = t})

C2_IgnoredNeverEmitted ==
    \A t \in Triples : t[2].name \notin ignore

\* the planner returned, and an ignored installed package had both a newer
\* same-name candidate and a candidate that replaces it
C2_Witness ==
    /\ pc = "done"
    /\ \E p \in local :
        /\ p.name \in ignore
        /\ \E q \in SyncEntries :
              q.name = p.name /\ db_versioncmp(r(p.version), r(q.version)) = "Less"
        /\ \E q \in SyncEntries : q.name # p.name /\ Replaces(q, p.name)

C5_ReplacementIgnoresVersions ==
    pc = "done" =>
        \A p \in local : \A pos \in Positions :
            LET q == syncs[pos[1]][pos[2]]
            IN  (p.name \notin ignore /\ q.name # p.name /\ Replaces(q, p.name))
                    => <<dbs[pos[1]], p, q>> \in Triples

\* replacements were emitted whose version does not parse and whose version is
\* lower than the installed one
C5_Witness ==
    /\ pc = "done"
    /\ \E t \in Triples : t[2].name # t[3].name /\ ~Parses(t[3])
    /\ \E t \in Triples :
          /\ t[2].name # t[3].name
          /\ db_versioncmp(r(t[3].version), r(t[2].version)) = "Less"

\* the planner scenario: X installed at 1.0-1, the single repository core
\* holding X at 1.0-2 and a Y whose replaces contains X
ScenarioX1 ==
    [name |-> HandleOf(<<"X">>), version |-> HandleOf(<<"1", ".", "0", "-", "1">>),
     replaces |-> <<>>]
ScenarioX2 ==
    [name |-> HandleOf(<<"X">>), version |-> HandleOf(<<"1", ".", "0", "-", "2">>),
     replaces |-> <<>>]
IsScenarioY(q) == q.name = HandleOf(<<"Y">>) /\ Replaces(q, HandleOf(<<"X">>))
Scenario ==
    /\ dbs = <<"core">>
    /\ local = {ScenarioX1}
    /\ HandleOf(<<"X">>) \notin ignore
    /\ Len(syncs[1]) = Len(PkgNames)
    /\ \E k \in 1..Len(syncs[1]) : syncs[1][k] = ScenarioX2
    /\ \E k \in 1..Len(syncs[1]) : IsScenarioY(syncs[1][k])

\* C6 as claimed: in the scenario the planner returns exactly the two triples
\* and always (core, X@1.0-1, X@1.0-2) first, (core, X@1.0-1, Y) second.
C6_ScenarioFixedOrder ==
    (pc = "done" /\ Scenario) =>
        /\ Len(upgrades) = Len(PkgNames)
        /\ upgrades[1] = <<"core", ScenarioX1, ScenarioX2>>
        /\ upgrades[2][1] = "core" /\ upgrades[2][2] = ScenarioX1
        /\ IsScenarioY(upgrades[2][3])

\* C6 amended: in the scenario the planner returns exactly the two triples
\* (core, X@1.0-1, X@1.0-2) and (core, X@1.0-1, Y), in the order in which the
\* repository's map yields X and Y.
C6_ScenarioTwoTriples ==
    (pc = "done" /\ Scenario) =>
        /\ Len(upgrades) = Len(PkgNames)
        /\ \A k \in 1..Len(upgrades) :
              upgrades[k] = <<"core", ScenarioX1, syncs[1][k]>>
        /\ \E k \in 1..Len(upgrades) : upgrades[k][3] = ScenarioX2
        /\ \E k \in 1..Len(upgrades) : IsScenarioY(upgrades[k][3])

\* the scenario returned with the replacement ahead of the same-name upgrade
C6_Witness ==
    /\ pc = "done"
    /\ Scenario
    /\ Len(upgrades) = Len(PkgNames)
    /\ IsScenarioY(upgrades[1][3])
    /\ upgrades[2][3] = ScenarioX2

(***************************************************************************)
(* versioncmp on every pair of three strings: the calls a caller makes      *)
(* when it orders three versions.                                          *)
(***************************************************************************)
\* longest string of the exhaustive part of the three inputs
MaxOrdLen == 1

\* strings with and without epoch and pkgrel, with numeric and alphabetic
\* segments
OrdSamples ==
    { <<"1", ".", "1">>, <<"1", ".", "a">>, <<"1", "a">>, <<"1", "0">>,
      <<"1", "-", "1">>, <<"1", "-", "2">>, <<"1", "-", "a">>, <<"a", "-", "1">>,
      <<"0", ":", "1">>, <<"1", ":", "1">>, <<"1", ":", "a">>, <<"0", ":", "1", "-", "1">> }

OrdVersions == UNION {[1..n -> Alphabet] : n \in 0..MaxOrdLen} \cup OrdSamples

InitOrd ==
    /\ a \in OrdVersions
    /\ b \in OrdVersions
    /\ c3 \in OrdVersions
    /\ opc = "input"
    /\ cpc = "idle" /\ va = NoVersion /\ vb = NoVersion /\ ord = "none"
    /\ ord_ba = "none" /\ ord_bc = "none" /\ ord_ac = "none"
    /\ PlannerIdle
    /\ DescIdle
    /\ LoadIdle
    /\ IniIdle
    /\ ConfIdle
    /\ TaskIdle

\* versioncmp(a, b), versioncmp(b, a), versioncmp(b, c3), versioncmp(a, c3)
CompareThree ==
    /\ opc = "input"
    /\ \/ /\ \E s \in {a, b, c3} : ~versionparse(s).ok
          /\ opc' = "panicked"
          /\ UNCHANGED <<ord, ord_ba, ord_bc, ord_ac>>
       \/ /\ \A s \in {a, b, c3} : versionparse(s).ok
          /\ opc' = "done"
          /\ ord' = versioncmp(a, b)
          /\ ord_ba' = versioncmp(b, a)
          /\ ord_bc' = versioncmp(b, c3)
          /\ ord_ac' = versioncmp(a, c3)
    /\ UNCHANGED <<a, b, c3, cpc, va, vb>>
    /\ UNCHANGED <<plannerVars, descVars, loadVars, iniVars, confVars, taskVars>>

NextOrd == CompareThree

SpecOrd == InitOrd /\ [][NextOrd]_vars

(***************************************************************************)
(* The descriptor parser: parse_to_map, on the characters of the text.     *)
(* A position past the end of the text stands for the empty remainder.     *)
(***************************************************************************)
NL == "\n"

\* the characters of the modelled texts that are not alphanumeric
NotAlphanumeric == {"%", NL, "-", "=", "_", "!", ".", ":", "/", "+", " ", "[", "]", "#", ";", "$", "\t"}

\* alphanumeric1 at i: the length of the run of alphanumeric characters
RECURSIVE alphanumeric_run(_, _)
alphanumeric_run(t, i) ==
    IF i > Len(t) \/ t[i] \in NotAlphanumeric THEN 0
    ELSE 1 + alphanumeric_run(t, i + 1)

\* delimited(char('%'), alphanumeric1, pair(char('%'), newline)) at i:
\* the length of the key, 0 when the header does not match
header_key_len(t, i) ==
    LET k == alphanumeric_run(t, i + 1)
    IN  IF /\ i <= Len(t) /\ t[i] = "%"
           /\ k > 0
           /\ i + k + 2 <= Len(t)
           /\ t[i + k + 1] = "%"
           /\ t[i + k + 2] = NL
        THEN k ELSE 0

\* tag("\n\n") at i
tag_blank(t, i) == i + 1 <= Len(t) /\ t[i] = NL /\ t[i + 1] = NL

\* the position of the first newline at or after i, 0 when there is none
RECURSIVE take_until_newline(_, _)
take_until_newline(t, i) ==
    IF i > Len(t) THEN 0
    ELSE IF t[i] = NL THEN i
    ELSE take_until_newline(t, i + 1)

\* take_until("\n\n") from i: the position of the first "\n\n" at or after i,
\* 0 when there is none
RECURSIVE take_until_blank(_, _)
take_until_blank(t, i) ==
    IF i + 1 > Len(t) THEN 0
    ELSE IF tag_blank(t, i) THEN i
    ELSE take_until_blank(t, i + 1)

NoEntry == [ok |-> FALSE, key |-> <<>>, value |-> <<>>, next |-> 0]

\* entry at i: (header, take_until("\n\n"))
entry(t, i) ==
    LET k == header_key_len(t, i)
        j == take_until_blank(t, i + k + 3)
    IN  IF k = 0 \/ j = 0 THEN NoEntry
        ELSE [ok |-> TRUE,
              key |-> SubSeq(t, i + 1, i + k),
              value |-> SubSeq(t, i + k + 3, j - 1),
              next |-> j]

\* the loop of separated_list0 after an element: a separator and an element,
\* or the end of the list with the remainder at i
RECURSIVE list_more(_, _)
list_more(t, i) ==
    IF tag_blank(t, i) /\ entry(t, i + 2).ok
    THEN LET e == entry(t, i + 2)
             more == list_more(t, e.next)
         IN  [v |-> <<e>> \o more.v, r |-> more.r]
    ELSE [v |-> <<>>, r |-> i]

\* list: separated_list0(tag("\n\n"), entry)
list(t) ==
    IF entry(t, 1).ok
    THEN LET e == entry(t, 1)
             more == list_more(t, e.next)
         IN  [v |-> <<e>> \o more.v, r |-> more.r]
    ELSE [v |-> <<>>, r |-> 1]

\* v.into_iter().collect() into a HashMap: a later entry of a key replaces an
\* earlier one
collect_map(v) ==
    [k \in {v[n].key : n \in 1..Len(v)} |->
        LET last == CHOOSE n \in 1..Len(v) :
                        v[n].key = k /\ \A l \in (n + 1)..Len(v) : v[l].key # k
        IN  v[last].value]

\* a parse_to_map that returns the map whatever the list leaves unread
parse_to_map_unchecked(t) == <<collect_map(list(t).v)>>

\* parse_to_map: <<m>>, or <<>> when assert_eq!(r, "\n\n") fails
parse_to_map(t) ==
    LET l == list(t)
    IN  IF l.r = Len(t) - 1 /\ tag_blank(t, l.r) THEN <<collect_map(l.v)>> ELSE <<>>

(***************************************************************************)
(* The typed conversion of Package::from_str.  The fields of the struct    *)
(* literal are evaluated in the order written; the first unwrap that fails *)
(* ends the call, with the strings interned until then left in the pool.   *)
(***************************************************************************)
\* the keys the code names
K == [ BASE |-> <<"B", "A", "S", "E">>,
      NAME |-> <<"N", "A", "M", "E">>,
      VERSION |-> <<"V", "E", "R", "S", "I", "O", "N">>,
      ARCH |-> <<"A", "R", "C", "H">>,
      REASON |-> <<"R", "E", "A", "S", "O", "N">>,
      INSTALLDATE |-> <<"I", "N", "S", "T", "A", "L", "L", "D", "A", "T", "E">>,
      VALIDATION |-> <<"V", "A", "L", "I", "D", "A", "T", "I", "O", "N">>,
      PACKAGER |-> <<"P", "A", "C", "K", "A", "G", "E", "R">>,
      SIZE |-> <<"S", "I", "Z", "E">>,
      ISIZE |-> <<"I", "S", "I", "Z", "E">>,
      CSIZE |-> <<"C", "S", "I", "Z", "E">>,
      BUILDDATE |-> <<"B", "U", "I", "L", "D", "D", "A", "T", "E">>,
      URL |-> <<"U", "R", "L">>,
      LICENSE |-> <<"L", "I", "C", "E", "N", "S", "E">>,
      DESC |-> <<"D", "E", "S", "C">>,
      FILENAME |-> <<"F", "I", "L", "E", "N", "A", "M", "E">>,
      MD5SUM |-> <<"M", "D", "5", "S", "U", "M">>,
      SHA256SUM |-> <<"S", "H", "A", "2", "5", "6", "S", "U", "M">>,
      PGPSIG |-> <<"P", "G", "P", "S", "I", "G">>,
      PROVIDES |-> <<"P", "R", "O", "V", "I", "D", "E", "S">>,
      DEPENDS |-> <<"D", "E", "P", "E", "N", "D", "S">>,
      OPTDEPENDS |-> <<"O", "P", "T", "D", "E", "P", "E", "N", "D", "S">>,
      MAKEDEPENDS |-> <<"M", "A", "K", "E", "D", "E", "P", "E", "N", "D", "S">>,
      CHECKDEPENDS |-> <<"C", "H", "E", "C", "K", "D", "E", "P", "E", "N", "D", "S">>,
      GROUPS |-> <<"G", "R", "O", "U", "P", "S">>,
      REPLACES |-> <<"R", "E", "P", "L", "A", "C", "E", "S">>,
      CONFLICTS |-> <<"C", "O", "N", "F", "L", "I", "C", "T", "S">>,
      XDATA |-> <<"X", "D", "A", "T", "A">>,
      SHA265SUM |-> <<"S", "H", "A", "2", "6", "5", "S", "U", "M">> ]

\* the fields in evaluation order: the key read, the conversion applied and
\* whether the result is unwrapped (a required field)
Fields ==
    << [field |-> "base", key |-> K.BASE, kind |-> "intern", req |-> TRUE],
       [field |-> "name", key |-> K.NAME, kind |-> "intern", req |-> TRUE],
       [field |-> "version", key |-> K.VERSION, kind |-> "intern", req |-> TRUE],
       [field |-> "arch", key |-> K.ARCH, kind |-> "arch", req |-> TRUE],
       [field |-> "reason", key |-> K.REASON, kind |-> "u8", req |-> FALSE],
       [field |-> "install_date", key |-> K.INSTALLDATE, kind |-> "time", req |-> FALSE],
       [field |-> "packager", key |-> K.PACKAGER, kind |-> "intern", req |-> TRUE],
       [field |-> "build_date", key |-> K.BUILDDATE, kind |-> "time", req |-> TRUE],
       [field |-> "url", key |-> K.URL, kind |-> "intern", req |-> TRUE],
       [field |-> "license", key |-> K.LICENSE, kind |-> "list", req |-> TRUE],
       [field |-> "desc", key |-> K.DESC, kind |-> "intern", req |-> TRUE],
       [field |-> "isize", key |-> K.SIZE, kind |-> "size", req |-> FALSE],
       [field |-> "csize", key |-> K.CSIZE, kind |-> "u64", req |-> FALSE],
       [field |-> "validation", key |-> K.VALIDATION, kind |-> "validation", req |-> FALSE],
       [field |-> "filename", key |-> K.FILENAME, kind |-> "intern", req |-> FALSE],
       [field |-> "md5sum", key |-> K.MD5SUM, kind |-> "md5", req |-> FALSE],
       [field |-> "sha256sum", key |-> K.SHA265SUM, kind |-> "sha256", req |-> FALSE],
       [field |-> "pgpsig", key |-> K.PGPSIG, kind |-> "intern", req |-> FALSE],
       [field |-> "depends", key |-> K.DEPENDS, kind |-> "list", req |-> FALSE],
       [field |-> "optdepends", key |-> K.OPTDEPENDS, kind |-> "list", req |-> FALSE],
       [field |-> "makedepends", key |-> K.MAKEDEPENDS, kind |-> "list", req |-> FALSE],
       [field |-> "checkdepends", key |-> K.CHECKDEPENDS, kind |-> "list", req |-> FALSE],
       [field |-> "provides", key |-> K.PROVIDES, kind |-> "list", req |-> FALSE],
       [field |-> "groups", key |-> K.GROUPS, kind |-> "list", req |-> FALSE],
       [field |-> "replaces", key |-> K.REPLACES, kind |-> "set", req |-> FALSE],
       [field |-> "conflicts", key |-> K.CONFLICTS, kind |-> "list", req |-> FALSE],
       [field |-> "xdata", key |-> K.XDATA, kind |-> "xdata", req |-> FALSE] >>

\* the tokens removed from the map before assert!(m.is_empty())
KnownTokens ==
    { K.BASE, K.NAME, K.VERSION, K.ARCH, K.REASON, K.INSTALLDATE,
      K.VALIDATION, K.PACKAGER, K.SIZE, K.ISIZE, K.CSIZE, K.BUILDDATE,
      K.URL, K.LICENSE, K.DESC, K.FILENAME, K.MD5SUM, K.SHA256SUM,
      K.PGPSIG, K.PROVIDES, K.DEPENDS, K.OPTDEPENDS, K.MAKEDEPENDS, K.CHECKDEPENDS,
      K.GROUPS, K.REPLACES, K.CONFLICTS, K.XDATA }

\* m.get(key): <<value>> or <<>>
get(mm, key) == IF key \in DOMAIN mm THEN <<mm[key]>> ELSE <<>>

\* s.split('\n'): the lines of s, one more than its newlines
RECURSIVE split_newline(_)
split_newline(s) ==
    LET j == take_until_newline(s, 1)
    IN  IF j = 0 THEN <<s>>
        ELSE <<SubSeq(s, 1, j - 1)>> \o split_newline(SubSeq(s, j + 1, Len(s)))

\* an interner that hands out a new handle at every call
get_or_intern_always_new(p, s) == Append(p, s)

\* ir.get_or_intern(s): the pool, with s appended when it is new; the handle of
\* a string is its index
get_or_intern(p, s) == IF \E h \in 1..Len(p) : p[h] = s THEN p ELSE Append(p, s)

symbol_of(p, s) == CHOOSE h \in 1..Len(p) : p[h] = s

RECURSIVE intern_each(_, _)
intern_each(p, l) ==
    IF l = <<>> THEN p ELSE intern_each(get_or_intern(p, l[1]), Tail(l))

\* the alphabet of BASE64_STANDARD_NO_PAD
B64Alphabet ==
    << "A", "B", "C", "D", "E", "F", "G", "H", "I", "J", "K", "L", "M",
       "N", "O", "P", "Q", "R", "S", "T", "U", "V", "W", "X", "Y", "Z",
       "a", "b", "c", "d", "e", "f", "g", "h", "i", "j", "k", "l", "m",
       "n", "o", "p", "q", "r", "s", "t", "u", "v", "w", "x", "y", "z",
       "0", "1", "2", "3", "4", "5", "6", "7", "8", "9", "+", "/" >>

B64Chars == {B64Alphabet[k] : k \in 1..Len(B64Alphabet)}
B64Val(ch) == (CHOOSE k \in 1..Len(B64Alphabet) : B64Alphabet[k] = ch) - 1

\* the bytes of a run of valid symbols: three per four symbols, and a last
\* group of two or three symbols whose unused bits are zero
RECURSIVE b64_bytes(_)
b64_bytes(s) ==
    IF Len(s) = 0 THEN [ok |-> TRUE, bytes |-> <<>>]
    ELSE IF Len(s) = 1 THEN [ok |-> FALSE, bytes |-> <<>>]
    ELSE LET v1 == B64Val(s[1])
             v2 == B64Val(s[2])
             b1 == v1 * 4 + (v2 \div 16)
         IN  IF Len(s) = 2
             THEN [ok |-> v2 % 16 = 0, bytes |-> <<b1>>]
             ELSE LET v3 == B64Val(s[3])
                      b2 == (v2 % 16) * 16 + (v3 \div 4)
                  IN  IF Len(s) = 3
                      THEN [ok |-> v3 % 4 = 0, bytes |-> <<b1, b2>>]
                      ELSE LET b3 == (v3 % 4) * 64 + B64Val(s[4])
                               more == b64_bytes(SubSeq(s, 5, Len(s)))
                           IN  [ok |-> more.ok, bytes |-> <<b1, b2, b3>> \o more.bytes]

\* B64.decode(s): <<bytes>>, or <<>> for an error
b64_decode(s) ==
    IF \A j \in 1..Len(s) : s[j] \in B64Chars
    THEN IF b64_bytes(s).ok THEN <<b64_bytes(s).bytes>> ELSE <<>>
    ELSE <<>>

\* the lengths of the digest arrays: md5sum: [u8; 24], sha256sum: [u8; 48]
Md5Len == 24
Sha256Len == 48

\* B64.decode(s).unwrap().try_into().unwrap() into an array of n bytes
digest(s, n) ==
    IF b64_decode(s) # <<>> /\ Len(b64_decode(s)[1]) = n THEN b64_decode(s) ELSE <<>>

ArchTags == { <<"x", "8", "6", "_", "6", "4">>, <<"a", "n", "y">> }
ValidationTags == { <<"n", "o", "n", "e">>, <<"m", "d", "5">>, <<"s", "h", "a", "2", "5", "6">>, <<"p", "g", "p">> }
XDataTags == { <<"p", "k", "g", "t", "y", "p", "e", "=", "p", "k", "g">>, <<"p", "k", "g", "t", "y", "p", "e", "=", "s", "p", "l", "i", "t">>, <<"p", "k", "g", "t", "y", "p", "e", "=", "d", "e", "b", "u", "g">> }

\* u8::from_str
u8_from_str(s) == IF u64_from_str(s) # <<>> /\ u64_from_str(s)[1] <= 255 THEN u64_from_str(s) ELSE <<>>

\* s.split_once('\n').map(|t| t.0).unwrap_or(s)
first_line(s) == split_newline(s)[1]

\* the value a field reads: isize reads SIZE and, when that is absent, ISIZE
field_get(mm, f) ==
    IF f.kind = "size" /\ get(mm, f.key) = <<>> THEN get(mm, K.ISIZE) ELSE get(mm, f.key)

\* the copy of from_str in src/src/db.rs, which the loaders of db.rs call,
\* hands the whole VALIDATION value to Validation::from_str
kind_of(old, f) == IF old /\ f.kind = "validation" THEN "validation_whole" ELSE f.kind

\* whether the conversion of a present value succeeds
converts(kind, s) ==
    CASE kind = "arch" -> s \in ArchTags
      [] kind = "u8" -> u8_from_str(s) # <<>>
      [] kind \in {"u64", "time", "size"} -> u64_from_str(s) # <<>>
      [] kind = "validation" -> first_line(s) \in ValidationTags
      [] kind = "validation_whole" -> s \in ValidationTags
      [] kind = "md5" -> digest(s, Md5Len) # <<>>
      [] kind = "sha256" -> digest(s, Sha256Len) # <<>>
      [] kind = "xdata" -> s \in XDataTags
      [] OTHER -> TRUE

\* the pool after the conversion of a present value
interned(kind, p, s) ==
    CASE kind = "intern" -> get_or_intern(p, s)
      [] kind \in {"list", "set"} -> intern_each(p, split_newline(s))
      [] OTHER -> p

\* the fields from the n-th on, in order: whether every unwrap succeeds, and
\* the pool when the last one is done or the first one fails
RECURSIVE run_fields(_, _, _, _)
run_fields(old, mm, p, n) ==
    IF n > Len(Fields) THEN [ok |-> TRUE, pool |-> p]
    ELSE LET f == Fields[n]
             v == field_get(mm, f)
         IN  IF v = <<>>
             THEN IF f.req THEN [ok |-> FALSE, pool |-> p]
                  ELSE run_fields(old, mm, p, n + 1)
             ELSE IF ~converts(kind_of(old, f), v[1]) THEN [ok |-> FALSE, pool |-> p]
             ELSE run_fields(old, mm, interned(f.kind, p, v[1]), n + 1)

\* the value stored for a present field, its strings being in the pool
converted(kind, p, s) ==
    CASE kind = "intern" -> symbol_of(p, s)
      [] kind = "list" -> [n \in 1..Len(split_newline(s)) |-> symbol_of(p, split_newline(s)[n])]
      [] kind = "set" -> {symbol_of(p, split_newline(s)[n]) : n \in 1..Len(split_newline(s))}
      [] kind = "u8" -> u8_from_str(s)[1]
      [] kind \in {"u64", "time", "size"} -> u64_from_str(s)[1]
      [] kind = "validation" -> first_line(s)
      [] kind = "validation_whole" -> s
      [] kind = "md5" -> digest(s, Md5Len)[1]
      [] kind = "sha256" -> digest(s, Sha256Len)[1]
      [] OTHER -> s

FieldNames == {Fields[n].field : n \in 1..Len(Fields)}
FieldOf(name) == Fields[CHOOSE n \in 1..Len(Fields) : Fields[n].field = name]

\* the struct: a required field holds its value, an optional one <<>> or <<value>>
package_of(old, mm, p) ==
    [name \in FieldNames |->
        LET f == FieldOf(name)
            v == field_get(mm, f)
        IN  IF f.req THEN converted(kind_of(old, f), p, v[1])
            ELSE IF v = <<>> THEN <<>>
            ELSE <<converted(kind_of(old, f), p, v[1])>>]

\* the keys left in m after the known tokens are removed
leftover(mm) == DOMAIN mm \ KnownTokens

(***************************************************************************)
(* Package::from_str(i, s) as a state machine: parse_to_map(s).unwrap(),   *)
(* then the conversion.                                                    *)
(***************************************************************************)
\* longest text of the exhaustive part of the inputs
MaxTextLen == 6
TextAlphabet == {"%", "N", NL, "-"}
ShortTexts == UNION {[1..n -> TextAlphabet] : n \in 0..MaxTextLen}

\* texts made of pieces of records: a header, a header without its newline, a
\* header with a key that is not alphanumeric, a value, a newline, a blank line
MaxPieces == 4
Pieces ==
    { <<"%", "N", "%", NL>>, <<"%", "N", "%">>, <<"%", "-", "%", NL>>, <<"v">>, <<NL>>, <<NL, NL>> }

RECURSIVE concat(_)
concat(ss) == IF ss = <<>> THEN <<>> ELSE ss[1] \o concat(Tail(ss))

PieceTexts == {concat(ss) : ss \in UNION {[1..n -> Pieces] : n \in 0..MaxPieces}}

\* a descriptor with every required key
BaseRecords ==
    << [key |-> K.NAME, val |-> <<"X">>],
       [key |-> K.BASE, val |-> <<"X">>],
       [key |-> K.VERSION, val |-> <<"1">>],
       [key |-> K.DESC, val |-> <<"d">>],
       [key |-> K.URL, val |-> <<"u">>],
       [key |-> K.ARCH, val |-> <<"a", "n", "y">>],
       [key |-> K.BUILDDATE, val |-> <<"7">>],
       [key |-> K.PACKAGER, val |-> <<"p">>],
       [key |-> K.LICENSE, val |-> <<"L">>] >>

Rep(ch, n) == [j \in 1..n |-> ch]

\* changes to the descriptor: a key dropped (val = <<>>), or set to a value
Drops == {[key |-> BaseRecords[n].key, val |-> <<>>] : n \in 1..Len(BaseRecords)}
Sets ==
    { [key |-> K.NAME, val |-> <<<<"Y">>>>],
      [key |-> K.ARCH, val |-> <<<<"x", "8", "6", "_", "6", "4">>>>],
      [key |-> K.ARCH, val |-> <<<<"a", "r", "m">>>>],
      [key |-> K.BUILDDATE, val |-> <<<<"x">>>>],
      [key |-> K.LICENSE, val |-> <<<<"L", NL, "M">>>>],
      [key |-> K.REASON, val |-> <<<<"1">>>>],
      [key |-> K.REASON, val |-> <<<<"x">>>>],
      [key |-> K.REASON, val |-> <<<<"2", "5", "6">>>>],
      [key |-> K.INSTALLDATE, val |-> <<<<"5">>>>],
      [key |-> K.INSTALLDATE, val |-> <<<<"x">>>>],
      [key |-> K.SIZE, val |-> <<<<"8">>>>],
      [key |-> K.SIZE, val |-> <<<<"x">>>>],
      [key |-> K.ISIZE, val |-> <<<<"9">>>>],
      [key |-> K.CSIZE, val |-> <<<<"3">>>>],
      [key |-> K.CSIZE, val |-> <<<<"x">>>>],
      [key |-> K.VALIDATION, val |-> <<<<"p", "g", "p">>>>],
      [key |-> K.VALIDATION, val |-> <<<<"m", "d", "4">>>>],
      [key |-> K.VALIDATION, val |-> <<<<"n", "o", "n", "e", NL, "m", "d", "4">>>>],
      [key |-> K.FILENAME, val |-> <<<<"f">>>>],
      [key |-> K.PGPSIG, val |-> <<<<"s">>>>],
      [key |-> K.DEPENDS, val |-> <<<<"a", NL, "b">>>>],
      [key |-> K.OPTDEPENDS, val |-> <<<<"a">>>>],
      [key |-> K.MAKEDEPENDS, val |-> <<<<"a">>>>],
      [key |-> K.CHECKDEPENDS, val |-> <<<<"a">>>>],
      [key |-> K.PROVIDES, val |-> <<<<"a">>>>],
      [key |-> K.GROUPS, val |-> <<<<"g">>>>],
      [key |-> K.CONFLICTS, val |-> <<<<"a">>>>],
      [key |-> K.REPLACES, val |-> <<<<"X">>>>],
      [key |-> K.REPLACES, val |-> <<<<"Y">>>>],
      [key |-> K.REPLACES, val |-> <<<<"Y", NL, "X">>>>],
      [key |-> K.XDATA, val |-> <<<<"p", "k", "g", "t", "y", "p", "e", "=", "p", "k", "g">>>>],
      [key |-> K.XDATA, val |-> <<<<"p", "k", "g", "t", "y", "p", "e", "=", "f", "o", "o">>>>],
      [key |-> K.MD5SUM, val |-> <<Rep("A", 32)>>],
      [key |-> K.MD5SUM, val |-> <<Rep("/", 31) \o <<"w">>>>],
      [key |-> K.MD5SUM, val |-> <<Rep("A", 31) \o <<"!">>>>],
      [key |-> K.MD5SUM, val |-> <<Rep("A", 4)>>],
      [key |-> K.SHA256SUM, val |-> <<Rep("A", 63) \o <<"B">>>>],
      [key |-> K.SHA256SUM, val |-> <<Rep("A", 63) \o <<"!">>>>],
      [key |-> K.SHA265SUM, val |-> <<Rep("A", 63) \o <<"B">>>>],
      [key |-> K.SHA265SUM, val |-> <<Rep("A", 63) \o <<"!">>>>],
      [key |-> <<"F", "O", "O">>, val |-> <<<<"z">>>>] }

Edits == Drops \cup Sets

\* at most n changes, no two of one key
RECURSIVE EditSets(_)
EditSets(n) ==
    IF n = 0 THEN {{}}
    ELSE EditSets(n - 1) \cup
         UNION {{S \cup {e} : e \in {x \in Edits : \A y \in S : y.key # x.key}} :
                   S \in EditSets(n - 1)}

\* most changes made to the base descriptor
MaxEdits == 1

\* the keys in the order a descriptor lists them
KeyOrder ==
    << K.NAME, K.BASE, K.VERSION, K.DESC, K.URL, K.ARCH, K.BUILDDATE, K.PACKAGER,
       K.LICENSE, K.REASON, K.INSTALLDATE, K.SIZE, K.ISIZE, K.CSIZE, K.VALIDATION,
       K.FILENAME, K.MD5SUM, K.SHA256SUM, K.SHA265SUM, K.PGPSIG, K.DEPENDS,
       K.OPTDEPENDS, K.MAKEDEPENDS, K.CHECKDEPENDS, K.PROVIDES, K.GROUPS,
       K.REPLACES, K.CONFLICTS, K.XDATA, <<"F", "O", "O">> >>

\* the value of a key in the base descriptor changed by S: <<>> or <<value>>
edited(S, key) ==
    IF \E e \in S : e.key = key THEN (CHOOSE e \in S : e.key = key).val
    ELSE IF \E n \in 1..Len(BaseRecords) : BaseRecords[n].key = key
         THEN <<(CHOOSE rec \in {BaseRecords[n] : n \in 1..Len(BaseRecords)} : rec.key = key).val>>
    ELSE <<>>

\* the text of the descriptor: every record followed by a blank line
RECURSIVE render(_, _)
render(S, n) ==
    IF n > Len(KeyOrder) THEN <<>>
    ELSE IF edited(S, KeyOrder[n]) = <<>> THEN render(S, n + 1)
    ELSE <<"%">> \o KeyOrder[n] \o <<"%", NL>> \o edited(S, KeyOrder[n])[1] \o <<NL, NL>>
         \o render(S, n + 1)

Descriptors == {render(S, 1) : S \in EditSets(MaxEdits)}

\* the pool a call finds: empty, or filled by earlier calls of the session
PriorPools == { <<>>, << <<"Y">>, <<"X">> >> }

InitDesc ==
    /\ text \in ShortTexts \cup PieceTexts \cup Descriptors
    /\ debug \in BOOLEAN
    /\ pool \in PriorPools
    /\ dpc = "input"
    /\ dmap = <<>>
    /\ pkg = <<>>
    /\ dbs = <<>> /\ local = {} /\ syncs = <<>> /\ ignore = {}
    /\ pc = "idle" /\ todo = {} /\ cur = <<>> /\ ri = 0 /\ ei = 0
    /\ upgrades = <<>> /\ warned = {}
    /\ a = <<>> /\ b = <<>> /\ cpc = "idle"
    /\ va = NoVersion /\ vb = NoVersion /\ ord = "none"
    /\ OrdIdle
    /\ LoadIdle
    /\ IniIdle
    /\ ConfIdle
    /\ TaskIdle

\* let m = parse_to_map(s).unwrap()
ParseToMap ==
    /\ dpc = "input"
    /\ \/ /\ parse_to_map(text) = <<>>
          /\ dpc' = "panicked"
          /\ UNCHANGED dmap
       \/ /\ parse_to_map(text) # <<>>
          /\ dpc' = "mapped"
          /\ dmap' = parse_to_map(text)
    /\ UNCHANGED <<text, debug, pkg>>
    /\ UNCHANGED <<plannerVars, cmpVars, ordVars, loadVars, iniVars, confVars, taskVars>>

\* let s = Self { .. }; assert!(m.is_empty()); Ok(s)
Convert ==
    /\ dpc = "mapped"
    /\ LET res == run_fields(FALSE, dmap[1], pool, 1)
       IN  /\ pool' = res.pool
           /\ \/ /\ ~res.ok
                 /\ dpc' = "panicked"
                 /\ UNCHANGED pkg
              \/ /\ res.ok
                 /\ debug
                 /\ leftover(dmap[1]) # {}
                 /\ dpc' = "panicked"
                 /\ UNCHANGED pkg
              \/ /\ res.ok
                 /\ ~(debug /\ leftover(dmap[1]) # {})
                 /\ dpc' = "done"
                 /\ pkg' = <<package_of(FALSE, dmap[1], res.pool)>>
    /\ UNCHANGED <<text, debug, dmap>>
    /\ UNCHANGED <<dbs, local, syncs, ignore, pc, todo, cur, ri, ei, upgrades, warned>>
    /\ UNCHANGED <<cmpVars, ordVars, loadVars, iniVars, confVars, taskVars>>

NextDesc == ParseToMap \/ Convert

SpecDesc == InitDesc /\ [][NextDesc]_vars

(***************************************************************************)
(* The load phase of update_candidates: parse_localdb(i.clone()), then     *)
(* parse_syncdb(i.clone(), name) for every name of dbs, then               *)
(* shrink_to_fit on the one interner all of them share.                    *)
(***************************************************************************)
\* Package::from_str of src/src/db.rs as one call: the pool it leaves and <<>>
\* or <<Package>>
\* the end of from_str: the debug assertion and Ok(s)
from_fields(mm, res, dbg) ==
    IF ~res.ok \/ (dbg /\ leftover(mm) # {}) THEN [pool |-> res.pool, pkg |-> <<>>]
    ELSE [pool |-> res.pool, pkg |-> <<package_of(TRUE, mm, res.pool)>>]

\* from_str after parse_to_map: the unwrap of the map, then the conversion
from_map(p, mm, dbg) ==
    IF mm = <<>> THEN [pool |-> p, pkg |-> <<>>]
    ELSE from_fields(mm[1], run_fields(TRUE, mm[1], p, 1), dbg)

from_str(p, s, dbg) == from_map(p, parse_to_map(s), dbg)

\* i.borrow_mut().shrink_to_fit(): capacity is released, no string moves
shrink_to_fit(p) == p

\* pkgs.insert(pkg.name, pkg)
insert(mm, k, v) == [x \in DOMAIN mm \cup {k} |-> IF x = k THEN v ELSE mm[x]]

\* v.trim(): leading and trailing whitespace removed
RECURSIVE trim(_)
trim(s) ==
    IF s # <<>> /\ s[1] \in {" ", NL, "\t"} THEN trim(Tail(s))
    ELSE IF s # <<>> /\ s[Len(s)] \in {" ", NL, "\t"} THEN trim(SubSeq(s, 1, Len(s) - 1))
    ELSE s

\* the version of the local database the loader accepts
ALPM_DB_VERSION == 9

\* a mutation of version_accepted: no check
version_accepted_unchecked(v) == TRUE

\* let v: u64 = v.trim().parse().expect(e); assert_eq!(v, 9)
version_accepted(v) ==
    u64_from_str(trim(v)) # <<>> /\ u64_from_str(trim(v))[1] = ALPM_DB_VERSION

\* the contents of ALPM_DB_VERSION
VersionFiles ==
    { <<"9">>, <<"9", NL>>, <<" ", "0", "9">>, <<"+", "9">>,
      <<"8">>, <<"x">>, <<"9", "9">>, <<"9", " ", "9">>, <<>> }

\* the descriptor files: packages X and Y, a Y that replaces X, a
\* descriptor without BASE, and an X validated in two ways
LoadTexts ==
    { render({}, 1),
      render({[key |-> K.NAME, val |-> <<<<"Y">>>>]}, 1),
      render({[key |-> K.NAME, val |-> <<<<"Y">>>>], [key |-> K.REPLACES, val |-> <<<<"X">>>>]}, 1),
      render({[key |-> K.BASE, val |-> <<>>]}, 1),
      render({[key |-> K.VALIDATION, val |-> <<<<"p", "g", "p", NL, "n", "o", "n", "e">>>>]}, 1) }

\* most descriptor files over all databases
MaxFiles == 2

\* the descriptor files of one database, in the order the loader meets them
FileLists == UNION {[1..n -> LoadTexts] : n \in 0..MaxFiles}

InitLoad ==
    /\ dbs \in DbLists
    /\ files \in [version : VersionFiles, descs : [1..(Len(dbs) + 1) -> FileLists]]
    /\ TotalLen(files.descs) <= MaxFiles
    /\ debug \in BOOLEAN
    /\ pool = <<>>
    /\ lpc = "version"
    /\ ldb = 1
    /\ lidx = 0
    /\ lmaps = [k \in 1..(Len(dbs) + 1) |-> <<>>]
    /\ local = {} /\ syncs = <<>> /\ ignore = {}
    /\ pc = "idle" /\ todo = {} /\ cur = <<>> /\ ri = 0 /\ ei = 0
    /\ upgrades = <<>> /\ warned = {}
    /\ a = <<>> /\ b = <<>> /\ cpc = "idle"
    /\ va = NoVersion /\ vb = NoVersion /\ ord = "none"
    /\ OrdIdle
    /\ IniIdle
    /\ ConfIdle
    /\ TaskIdle
    /\ text = <<>> /\ dpc = "idle" /\ dmap = <<>> /\ pkg = <<>>

LoadFrame ==
    /\ UNCHANGED <<dbs, local, syncs, ignore, pc, todo, cur, ri, ei, upgrades, warned>>
    /\ UNCHANGED <<cmpVars, ordVars, iniVars, confVars, taskVars>>
    /\ UNCHANGED <<text, debug, dpc, dmap, pkg>>
    /\ UNCHANGED files

\* parse_localdb: the check of ALPM_DB_VERSION
CheckVersion ==
    /\ lpc = "version"
    /\ \/ /\ ~version_accepted(files.version)
          /\ lpc' = "panicked"
       \/ /\ version_accepted(files.version)
          /\ lpc' = "load"
    /\ UNCHANGED <<pool, ldb, lidx, lmaps>>
    /\ LoadFrame

\* one iteration of the loop of parse_localdb or parse_syncdb: the next
\* descriptor is parsed and the record inserted under its name
Loaded(res) ==
    /\ pool' = res.pool
    /\ \/ /\ res.pkg = <<>>
          /\ lpc' = "panicked"
          /\ UNCHANGED <<lidx, lmaps>>
       \/ /\ res.pkg # <<>>
          /\ lidx' = lidx + 1
          /\ lmaps' = [lmaps EXCEPT ![ldb] = insert(@, res.pkg[1].name, res.pkg[1])]
          /\ UNCHANGED lpc

LoadDescriptor ==
    /\ lpc = "load"
    /\ lidx < Len(files.descs[ldb])
    /\ Loaded(from_str(pool, files.descs[ldb][lidx + 1], debug))
    /\ UNCHANGED ldb
    /\ LoadFrame

\* a loader returns Ok(pkgs): the next database, or the end of the load
NextDatabase ==
    /\ lpc = "load"
    /\ lidx = Len(files.descs[ldb])
    /\ \/ /\ ldb <= Len(dbs)
          /\ ldb' = ldb + 1
          /\ lidx' = 0
          /\ UNCHANGED lpc
       \/ /\ ldb = Len(dbs) + 1
          /\ lpc' = "loaded"
          /\ UNCHANGED <<ldb, lidx>>
    /\ UNCHANGED <<pool, lmaps>>
    /\ LoadFrame

\* i.borrow_mut().shrink_to_fit()
Shrink ==
    /\ lpc = "loaded"
    /\ pool' = shrink_to_fit(pool)
    /\ lpc' = "shrunk"
    /\ UNCHANGED <<ldb, lidx, lmaps>>
    /\ LoadFrame

NextLoad == CheckVersion \/ LoadDescriptor \/ NextDatabase \/ Shrink

SpecLoad == InitLoad /\ [][NextLoad]_vars

(***************************************************************************)
(* The configuration reader: sec_kv_map of src/src/config/parse.rs (and    *)
(* its copy in src/src/config.rs).  A parser takes the text and the        *)
(* position of its first character, and gives the position after what it   *)
(* consumed.  A map is a function on its keys, <<>> when empty.            *)
(***************************************************************************)
\* take_while(c in S), many0(char(' ')), multispace0 at i: the position after
\* the run of characters of S
RECURSIVE take_while(_, _, _)
take_while(t, i, S) ==
    IF i > Len(t) \/ t[i] \notin S THEN i ELSE take_while(t, i + 1, S)

\* the characters other than those of S
Except(t, S) == {t[j] : j \in DOMAIN t} \ S

\* multispace0; the modelled files have no carriage return
Multispace == {" ", NL, "\t"}

\* delimited(char('['), take_until("]"), char(']'))
section(t, i) ==
    LET close == take_while(t, i + 1, Except(t, {"]"}))
    IN  IF i <= Len(t) /\ t[i] = "[" /\ close <= Len(t)
        THEN [ok |-> TRUE, name |-> SubSeq(t, i + 1, close - 1), next |-> close + 1]
        ELSE [ok |-> FALSE, name |-> <<>>, next |-> i]

\* kv: a name, which is a key or a whole comment line, and Option<value>
kv(t, i) ==
    LET n == alphanumeric_run(t, i)
        eol == take_while(t, i + 1, Except(t, {NL}))
        eq == take_while(t, i + n, {" "})
        v0 == take_while(t, eq + 1, {" "})
        v1 == take_while(t, v0, Except(t, {NL, ";"}))
    IN  IF n > 0
        THEN IF eq <= Len(t) /\ t[eq] = "=" /\ v1 > v0
             THEN [ok |-> TRUE, name |-> SubSeq(t, i, i + n - 1),
                   val |-> <<SubSeq(t, v0, v1 - 1)>>,
                   next |-> take_while(t, v1, {NL, ";"})]
             ELSE [ok |-> TRUE, name |-> SubSeq(t, i, i + n - 1),
                   val |-> <<>>, next |-> i + n]
        ELSE IF i <= Len(t) /\ t[i] = "#" /\ eol <= Len(t)
             THEN [ok |-> TRUE, name |-> SubSeq(t, i, eol), val |-> <<>>, next |-> eol + 1]
             ELSE [ok |-> FALSE, name |-> <<>>, val |-> <<>>, next |-> i]

\* a mutation of extend: the value replaces the list
extend_replacing(m, k, v) == insert(m, k, v)

\* ret.entry(k).or_default().extend(v)
extend(m, k, v) == insert(m, k, (IF k \in DOMAIN m THEN m[k] ELSE <<>>) \o v)

\* key_value_map: the loop over iterator(i, terminated(kv, opt(multispace0))),
\* comments filtered out, until kv fails; finish() gives the rest
RECURSIVE key_value_map_loop(_, _, _)
key_value_map_loop(t, i, m) ==
    LET e == kv(t, i)
    IN  IF ~e.ok THEN [map |-> m, next |-> i]
        ELSE key_value_map_loop(t, take_while(t, e.next, Multispace),
                                IF e.name[1] = "#" THEN m ELSE extend(m, e.name, e.val))

key_value_map(t, i) == key_value_map_loop(t, i, <<>>)

\* ---- the files read ----
MaxItems == 4

SectionNames == {<<"s">>, <<"c">>}

\* a header, a key=value line, a key-only line or a comment line
IniItems ==
    {[kind |-> "section", key |-> n, eq |-> <<>>, val |-> <<>>, sep |-> <<NL>>] : n \in SectionNames}
    \cup {[kind |-> "kv", key |-> <<"a">>, eq |-> <<"=">>, val |-> <<"1">>, sep |-> <<NL>>],
          [kind |-> "kv", key |-> <<"a">>, eq |-> <<" ", "=", " ">>, val |-> <<"2", " ">>, sep |-> <<";">>],
          [kind |-> "kv", key |-> <<"b">>, eq |-> <<"=">>, val |-> <<"1">>, sep |-> <<";", " ">>],
          [kind |-> "key", key |-> <<"a">>, eq |-> <<>>, val |-> <<>>, sep |-> <<NL>>],
          [kind |-> "comment", key |-> <<>>, eq |-> <<>>, val |-> <<"a", "=", "3">>, sep |-> <<NL>>]}

render_item(x) ==
    CASE x.kind = "section" -> <<"[">> \o x.key \o <<"]">> \o x.sep
      [] x.kind = "comment" -> <<"#">> \o x.val \o x.sep
      [] OTHER -> x.key \o x.eq \o x.val \o x.sep

IniFiles == UNION {[1..n -> IniItems] : n \in 0..MaxItems}

InitIni ==
    /\ ifile \in IniFiles
    /\ itext = concat([j \in DOMAIN ifile |-> render_item(ifile[j])])
    /\ ipc = "prelude"
    /\ ipos = 1
    /\ prelude = <<>>
    /\ isec = 0
    /\ ret = <<>>
    /\ PlannerIdle
    /\ CmpIdle
    /\ OrdIdle
    /\ DescIdle
    /\ LoadIdle
    /\ ConfIdle
    /\ TaskIdle

\* let (i, prelude) = opt(key_value_map).parse(i)?
Prelude ==
    /\ ipc = "prelude"
    /\ prelude' = key_value_map(itext, ipos).map
    /\ ipos' = key_value_map(itext, ipos).next
    /\ ipc' = "sections"
    /\ UNCHANGED <<ifile, itext, isec, ret>>
    /\ UNCHANGED <<plannerVars, cmpVars, ordVars, descVars, loadVars, confVars, taskVars>>

\* one item of iterator(i, (terminated(section, opt(multispace0)),
\* key_value_map)), collected into the HashMap ret
CollectSection ==
    /\ ipc = "sections"
    /\ section(itext, ipos).ok
    /\ LET s == section(itext, ipos)
           body == key_value_map(itext, take_while(itext, s.next, Multispace))
       IN  /\ ret' = insert(ret, s.name, body.map)
           /\ ipos' = body.next
    /\ isec' = isec + 1
    /\ UNCHANGED <<ifile, itext, ipc, prelude>>
    /\ UNCHANGED <<plannerVars, cmpVars, ordVars, descVars, loadVars, confVars, taskVars>>

\* the iterator ends; ret.insert("", prelude); i.finish()
Finish ==
    /\ ipc = "sections"
    /\ ~section(itext, ipos).ok
    /\ ret' = insert(ret, <<>>, prelude)
    /\ ipc' = "done"
    /\ UNCHANGED <<ifile, itext, ipos, prelude, isec>>
    /\ UNCHANGED <<plannerVars, cmpVars, ordVars, descVars, loadVars, confVars, taskVars>>

NextIni == Prelude \/ CollectSection \/ Finish

SpecIni == InitIni /\ [][NextIni]_vars

(***************************************************************************)
(* extract_relevant_config of src/src/config.rs: /etc/pacman.conf is read  *)
(* and parsed, then the architecture, the ignore list and the repository   *)
(* URLs are taken from it.  A panic of an unwrap, of an index or of        *)
(* panic! ends the call.                                                   *)
(***************************************************************************)
\* the words the code names
W == [ options |-> <<"o", "p", "t", "i", "o", "n", "s">>,
       Architecture |-> <<"A", "r", "c", "h", "i", "t", "e", "c", "t", "u", "r", "e">>,
       IgnorePkg |-> <<"I", "g", "n", "o", "r", "e", "P", "k", "g">>,
       Server |-> <<"S", "e", "r", "v", "e", "r">>,
       Include |-> <<"I", "n", "c", "l", "u", "d", "e">>,
       auto |-> <<"a", "u", "t", "o">>,
       x86_64 |-> <<"x", "8", "6", "_", "6", "4">>,
       arch |-> <<"$", "a", "r", "c", "h">>,
       repo |-> <<"$", "r", "e", "p", "o">> ]

\* the items of the iterator of sec_kv_map, collected
RECURSIVE collect_sections(_, _, _)
collect_sections(t, i, m) ==
    IF ~section(t, i).ok THEN m
    ELSE collect_sections(t,
             key_value_map(t, take_while(t, section(t, i).next, Multispace)).next,
             insert(m, section(t, i).name,
                    key_value_map(t, take_while(t, section(t, i).next, Multispace)).map))

\* parse_pacman_config: sec_kv_map never fails, the rest of the text is dropped
parse_pacman_config(t) ==
    insert(collect_sections(t, key_value_map(t, 1).next, <<>>), <<>>, key_value_map(t, 1).map)

\* m.remove(k).and_then(try_remove_first): the first value of key k
remove_first(m, k) == IF k \in DOMAIN m /\ m[k] # <<>> THEN <<m[k][1]>> ELSE <<>>

\* the map without key k
remove(m, k) == [x \in DOMAIN m \ {k} |-> m[x]]

\* s.starts_with(pat)
starts_with(s, pat) == Len(s) >= Len(pat) /\ SubSeq(s, 1, Len(pat)) = pat

\* s.replace(pat, to): the matches of pat from left to right, not overlapping
RECURSIVE replace(_, _, _)
replace(s, pat, to) ==
    IF s = <<>> THEN <<>>
    ELSE IF starts_with(s, pat) THEN to \o replace(SubSeq(s, Len(pat) + 1, Len(s)), pat, to)
    ELSE <<s[1]>> \o replace(Tail(s), pat, to)

\* s.split(' '): the pieces between the spaces, one more than the spaces
RECURSIVE split(_, _)
split(s, c) ==
    IF \A j \in DOMAIN s : s[j] # c THEN <<s>>
    ELSE LET j == CHOOSE x \in DOMAIN s : s[x] = c /\ \A y \in 1..(x - 1) : s[y] # c
         IN  <<SubSeq(s, 1, j - 1)>> \o split(SubSeq(s, j + 1, Len(s)), c)

\* ignores.trim().split(' ').map(str::trim).filter(|s| !s.is_empty())
split_ignores(v) ==
    SelectSeq([j \in DOMAIN split(trim(v), " ") |-> trim(split(trim(v), " ")[j])],
              LAMBDA x : x # <<>>)

\* std::fs::read_to_string(i): <<>> when the file cannot be read
read_to_string(path) == IF path \in DOMAIN xin.incs THEN xin.incs[path] ELSE <<>>

\* the filter_map over the Include targets and its next(): the files are read
\* in order until one gives a Server value; a file that cannot be read panics
RECURSIVE include_server(_)
include_server(targets) ==
    IF targets = <<>> THEN [ok |-> TRUE, val |-> <<>>]
    ELSE IF read_to_string(targets[1]) = <<>> THEN [ok |-> FALSE, val |-> <<>>]
    ELSE IF remove_first(parse_pacman_config(read_to_string(targets[1])[1])[<<>>], W.Server) # <<>>
         THEN [ok |-> TRUE,
               val |-> remove_first(parse_pacman_config(read_to_string(targets[1])[1])[<<>>], W.Server)]
    ELSE include_server(Tail(targets))

\* the Option of lines 145-163: the first Server value, or else the includes
server_of(v) ==
    IF remove_first(v, W.Server) # <<>> THEN [ok |-> TRUE, val |-> remove_first(v, W.Server)]
    ELSE IF W.Include \in DOMAIN v THEN include_server(v[W.Include])
    ELSE [ok |-> TRUE, val |-> <<>>]

\* ---- the configurations read ----
MaxRepos == 1

\* std::env::consts::ARCH of the build
Hosts == {W.x86_64, <<"a", "a", "r", "c", "h", "6", "4">>}

ArchLines ==
    { <<>>, <<"A", "r", "c", "h", "i", "t", "e", "c", "t", "u", "r", "e", NL>>, <<"A", "r", "c", "h", "i", "t", "e", "c", "t", "u", "r", "e", " ", "=", " ", "a", "u", "t", "o", NL>>, <<"A", "r", "c", "h", "i", "t", "e", "c", "t", "u", "r", "e", " ", "=", " ", "a", "u", "t", "o", " ", NL>>,
      <<"A", "r", "c", "h", "i", "t", "e", "c", "t", "u", "r", "e", " ", "=", " ", "x", "8", "6", "_", "6", "4", NL>>, <<"A", "r", "c", "h", "i", "t", "e", "c", "t", "u", "r", "e", " ", "=", " ", "a", "r", "m", NL>> }

IgnoreLines ==
    { <<>>, <<"I", "g", "n", "o", "r", "e", "P", "k", "g", " ", "=", " ", "a", " ", "b", NL>>, <<"I", "g", "n", "o", "r", "e", "P", "k", "g", " ", "=", " ", "a", "\t", "b", NL>>, <<"I", "g", "n", "o", "r", "e", "P", "k", "g", " ", "=", " ", " ", "a", " ", " ", "b", " ", NL>>,
      <<"I", "g", "n", "o", "r", "e", "P", "k", "g", " ", "=", " ", "a", NL, "I", "g", "n", "o", "r", "e", "P", "k", "g", " ", "=", " ", "b", NL>>, <<"I", "g", "n", "o", "r", "e", "P", "k", "g", NL>> }

\* no [options] at all, or [options] with one of the lines varied
OptionsSections ==
    {<<>>} \cup {<<"[", "o", "p", "t", "i", "o", "n", "s", "]", NL>> \o al : al \in ArchLines}
           \cup {<<"[", "o", "p", "t", "i", "o", "n", "s", "]", NL, "A", "r", "c", "h", "i", "t", "e", "c", "t", "u", "r", "e", " ", "=", " ", "a", "u", "t", "o", NL>> \o il : il \in IgnoreLines}

RepoBodies ==
    { <<>>, <<"S", "e", "r", "v", "e", "r", " ", "=", " ", "u", "/", "$", "r", "e", "p", "o", "/", "$", "a", "r", "c", "h", NL>>, <<"S", "e", "r", "v", "e", "r", " ", "=", " ", "u", NL, "S", "e", "r", "v", "e", "r", " ", "=", " ", "v", NL>>, <<"I", "n", "c", "l", "u", "d", "e", " ", "=", " ", "m", NL>>,
      <<"I", "n", "c", "l", "u", "d", "e", " ", "=", " ", "m", NL, "I", "n", "c", "l", "u", "d", "e", " ", "=", " ", "n", NL>>, <<"S", "e", "r", "v", "e", "r", " ", "=", " ", "$", "a", "r", "c", "h", "$", "a", "r", "c", "h", NL, "I", "n", "c", "l", "u", "d", "e", " ", "=", " ", "m", NL>> }

\* the contents of the files m and n: <<>> when the file is missing
IncTexts ==
    { <<>>, <<<<"I", "n", "c", "l", "u", "d", "e", " ", "=", " ", "n", NL>>>>, <<<<"S", "e", "r", "v", "e", "r", " ", "=", " ", "w", "/", "$", "r", "e", "p", "o", NL, "S", "e", "r", "v", "e", "r", " ", "=", " ", "v", NL>>>>, <<<<"[", "x", "]", NL, "S", "e", "r", "v", "e", "r", " ", "=", " ", "z", NL>>>> }

ConfInputs ==
    {[conf |-> o \o concat(rs), incs |-> f, host |-> h] :
        o \in OptionsSections,
        rs \in UNION {[1..n -> {<<"[">> \o k \o <<"]", NL>> \o bd : k \in SectionNames, bd \in RepoBodies}]
                        : n \in 0..MaxRepos},
        f \in [{<<"m">>, <<"n">>} -> IncTexts],
        h \in Hosts}

InitConf ==
    /\ xin \in ConfInputs
    /\ xpc = "read"
    /\ pacman_config = <<>>
    /\ arch = <<>>
    /\ ignores = <<>>
    /\ xtodo = {}
    /\ repos = <<>>
    /\ PlannerIdle
    /\ CmpIdle
    /\ OrdIdle
    /\ DescIdle
    /\ LoadIdle
    /\ IniIdle
    /\ TaskIdle

\* let mut pacman_config = parse_pacman_config(&pacman_config).unwrap()
ReadConfig ==
    /\ xpc = "read"
    /\ pacman_config' = parse_pacman_config(xin.conf)
    /\ xpc' = "arch"
    /\ UNCHANGED <<xin, arch, ignores, xtodo, repos>>
    /\ UNCHANGED <<plannerVars, cmpVars, ordVars, descVars, loadVars, iniVars, taskVars>>

\* let arch = pacman_config["options"]["Architecture"].first().map(|s| s.trim());
\* the match on it
SelectArch ==
    /\ xpc = "arch"
    /\ \/ /\ \/ W.options \notin DOMAIN pacman_config
             \/ /\ W.options \in DOMAIN pacman_config
                /\ W.Architecture \notin DOMAIN pacman_config[W.options]
          /\ xpc' = "panicked"
          /\ UNCHANGED arch
       \/ /\ W.options \in DOMAIN pacman_config
          /\ W.Architecture \in DOMAIN pacman_config[W.options]
          /\ LET first == remove_first(pacman_config[W.options], W.Architecture)
             IN  \/ /\ IF first = <<>> THEN TRUE ELSE trim(first[1]) = W.auto
                    /\ arch' = xin.host
                    /\ xpc' = "ignores"
                 \/ /\ first # <<>> /\ trim(first[1]) = W.x86_64
                    /\ arch' = W.x86_64
                    /\ xpc' = "ignores"
                 \/ /\ first # <<>> /\ trim(first[1]) \notin {W.auto, W.x86_64}
                    /\ xpc' = "panicked"
                    /\ UNCHANGED arch
    /\ UNCHANGED <<xin, pacman_config, ignores, xtodo, repos>>
    /\ UNCHANGED <<plannerVars, cmpVars, ordVars, descVars, loadVars, iniVars, taskVars>>

\* the ignore list: IgnorePkg is removed from options, its first value split
Ignores ==
    /\ xpc = "ignores"
    /\ ignores' = IF remove_first(pacman_config[W.options], W.IgnorePkg) = <<>> THEN <<>>
                  ELSE split_ignores(remove_first(pacman_config[W.options], W.IgnorePkg)[1])
    /\ pacman_config' = [pacman_config EXCEPT ![W.options] = remove(@, W.IgnorePkg)]
    /\ xtodo' = DOMAIN pacman_config
    /\ xpc' = "repos"
    /\ UNCHANGED <<xin, arch, repos>>
    /\ UNCHANGED <<plannerVars, cmpVars, ordVars, descVars, loadVars, iniVars, taskVars>>

\* one iteration of for (k, mut v) in pacman_config, in the order of the map
Repo ==
    /\ xpc = "repos"
    /\ \E k \in xtodo :
          /\ xtodo' = xtodo \ {k}
          /\ \/ /\ k \in {<<>>, W.options}
                /\ UNCHANGED <<xpc, repos>>
             \/ /\ k \notin {<<>>, W.options}
                /\ ~server_of(pacman_config[k]).ok \/ server_of(pacman_config[k]).val = <<>>
                /\ xpc' = "panicked"
                /\ UNCHANGED repos
             \/ /\ k \notin {<<>>, W.options}
                /\ server_of(pacman_config[k]).ok
                /\ server_of(pacman_config[k]).val # <<>>
                /\ repos' = insert(repos, k,
                                   replace(replace(server_of(pacman_config[k]).val[1], W.arch, arch),
                                           W.repo, k))
                /\ UNCHANGED xpc
    /\ UNCHANGED <<xin, pacman_config, arch, ignores>>
    /\ UNCHANGED <<plannerVars, cmpVars, ordVars, descVars, loadVars, iniVars, taskVars>>

\* (ignores, repos)
ReturnConfig ==
    /\ xpc = "repos"
    /\ xtodo = {}
    /\ xpc' = "done"
    /\ UNCHANGED <<xin, pacman_config, arch, ignores, xtodo, repos>>
    /\ UNCHANGED <<plannerVars, cmpVars, ordVars, descVars, loadVars, iniVars, taskVars>>

NextConf == ReadConfig \/ SelectArch \/ Ignores \/ Repo \/ ReturnConfig

SpecConf == InitConf /\ [][NextConf]_vars

(***************************************************************************)
(* The task-based local loader: parse_localdb of src/src/lib.rs.  The      *)
(* function runs a single-threaded executor (monoio::start): the main task *)
(* checks the version, spawns one task per package directory and awaits    *)
(* their join handles in spawn order; a task runs from one suspension      *)
(* point (.await) to the next without another task running in between.     *)
(* The descriptors are files.descs[1], the interner is pool, the map is    *)
(* lmaps[1] and lidx counts the join handles awaited.  Package::from_str   *)
(* of lib.rs converts as the copy in db.rs does, except that replaces is   *)
(* kept as a list.                                                         *)
(***************************************************************************)
\* the descriptors kept for other use: increase_nofile_limit(u64::MAX).unwrap() - 100
NofileReserve == 100

\* most package directories of the local database
MaxTasks == 2

\* more permits than there are tasks: what lim is once the subtraction
\* has wrapped around
Unbounded == MaxTasks + 2

\* the limits the process may be given
Nofiles == (NofileReserve - 1)..(NofileReserve + 2)

\* the desc files of the package directories: X, Y, and one without BASE
TaskTexts ==
    { render({}, 1),
      render({[key |-> K.NAME, val |-> <<<<"Y">>>>]}, 1),
      render({[key |-> K.BASE, val |-> <<>>]}, 1) }

TaskDirs == UNION {[1..n -> TaskTexts] : n \in 0..MaxTasks}

TaskVersions == { <<"9", NL>>, <<"8">> }

InitTask ==
    /\ nofile \in Nofiles
    /\ files \in [version : TaskVersions, descs : {<<d>> : d \in TaskDirs}]
    /\ debug \in BOOLEAN
    /\ tpc = "limit"
    /\ lim = 0 /\ sem = 0 /\ futs = <<>> /\ polled = 0 /\ borrowed = 0
    /\ pool = <<>>
    /\ lpc = "idle" /\ ldb = 1 /\ lidx = 0 /\ lmaps = << <<>> >>
    /\ dbs = <<>> /\ local = {} /\ syncs = <<>> /\ ignore = {}
    /\ pc = "idle" /\ todo = {} /\ cur = <<>> /\ ri = 0 /\ ei = 0
    /\ upgrades = <<>> /\ warned = {}
    /\ CmpIdle
    /\ OrdIdle
    /\ IniIdle
    /\ ConfIdle
    /\ text = <<>> /\ dpc = "idle" /\ dmap = <<>> /\ pkg = <<>>

TaskFrame ==
    /\ UNCHANGED <<dbs, local, syncs, ignore, pc, todo, cur, ri, ei, upgrades, warned>>
    /\ UNCHANGED <<cmpVars, ordVars, iniVars, confVars>>
    /\ UNCHANGED <<text, debug, dpc, dmap, pkg>>
    /\ UNCHANGED <<files, lpc, ldb, nofile>>

\* the tasks that hold a permit
holders == {t \in 1..Len(futs) : futs[t].pc \in {"read", "parse", "convert"}}

\* the tasks suspended in sem.acquire()
waiters == {t \in 1..Len(futs) : futs[t].pc = "acquire"}

\* let lim = ... - 100; Semaphore::new(lim as usize).  Below the reserve the
\* u64 subtraction overflows: a build with overflow checks panics, one
\* without wraps to a number near 2^64, which Semaphore::new either takes or
\* refuses with a panic
IncreaseLimit ==
    /\ tpc = "limit"
    /\ \/ /\ nofile >= NofileReserve
          /\ lim' = nofile - NofileReserve
          /\ tpc' = "version"
       \/ /\ nofile < NofileReserve
          /\ ~debug
          /\ lim' = Unbounded
          /\ tpc' = "version"
       \/ /\ nofile < NofileReserve
          /\ lim' = lim
          /\ tpc' = "panicked"
    /\ sem' = lim'
    /\ UNCHANGED <<futs, polled, borrowed, pool, lidx, lmaps>>
    /\ TaskFrame

\* the read of ALPM_DB_VERSION and its check
ReadVersion ==
    /\ tpc = "version"
    /\ tpc' = IF version_accepted(files.version) THEN "spawn" ELSE "panicked"
    /\ UNCHANGED <<lim, sem, futs, polled, borrowed, pool, lidx, lmaps>>
    /\ TaskFrame

\* the loop over read_dir: one monoio::spawn per package directory, none of
\* them run before the main task suspends
SpawnTasks ==
    /\ tpc = "spawn"
    /\ futs' = [t \in 1..Len(files.descs[1]) |-> [pc |-> "acquire", out |-> <<>>]]
    /\ tpc' = "await"
    /\ UNCHANGED <<lim, sem, polled, borrowed, pool, lidx, lmaps>>
    /\ TaskFrame

\* let lock = sem.acquire().await.unwrap(): the task goes on when a permit is
\* left, and stays suspended while there is none
Acquire(t) ==
    /\ tpc = "await" /\ polled = 0
    /\ futs[t].pc = "acquire"
    /\ sem > 0
    /\ sem' = sem - 1
    /\ futs' = [futs EXCEPT ![t].pc = "read"]
    /\ UNCHANGED <<tpc, lim, polled, borrowed, pool, lidx, lmaps>>
    /\ TaskFrame

\* monoio::fs::read(desc).await completes and the executor resumes the task
ReadDesc(t) ==
    /\ tpc = "await" /\ polled = 0
    /\ futs[t].pc = "read"
    /\ futs' = [futs EXCEPT ![t].pc = "parse"]
    /\ polled' = t
    /\ UNCHANGED <<tpc, lim, sem, borrowed, pool, lidx, lmaps>>
    /\ TaskFrame

\* a from_str that suspends while it holds the borrow
suspended_in_from_str(t) == 0

\* the task the executor runs after i.borrow_mut(): from_str has no .await,
\* so it is still the task that borrowed
running_in_from_str(t) == t

\* Package::from_str up to let mut ir = i.borrow_mut()
BorrowMut(t) ==
    /\ tpc = "await" /\ polled = t
    /\ futs[t].pc = "parse"
    /\ tpc' = IF parse_to_map(files.descs[1][t]) = <<>> THEN "panicked"
              ELSE IF borrowed > 0 THEN "already_borrowed"
              ELSE "await"
    /\ borrowed' = IF parse_to_map(files.descs[1][t]) = <<>> THEN borrowed ELSE borrowed + 1
    /\ futs' = [futs EXCEPT ![t].pc = "convert"]
    /\ polled' = running_in_from_str(t)
    /\ UNCHANGED <<lim, sem, pool, lidx, lmaps>>
    /\ TaskFrame

\* the rest of Package::from_str, drop(lock), and the task's output
ParseAndRelease(t) ==
    /\ tpc = "await" /\ polled = running_in_from_str(t)
    /\ futs[t].pc = "convert"
    /\ LET res == from_str(pool, files.descs[1][t], debug)
       IN  /\ pool' = res.pool
           /\ borrowed' = borrowed - 1
           /\ polled' = 0
           /\ IF res.pkg = <<>>
              THEN tpc' = "panicked" /\ UNCHANGED <<sem, futs>>
              ELSE /\ sem' = sem + 1
                   /\ futs' = [futs EXCEPT ![t] = [pc |-> "done", out |-> res.pkg]]
                   /\ UNCHANGED tpc
    /\ UNCHANGED <<lim, lidx, lmaps>>
    /\ TaskFrame

\* let pkg = f.await; pkgs.insert(pkg.name, pkg): the main task goes on when
\* the task of the next join handle has finished
Join ==
    /\ tpc = "await" /\ polled = 0
    /\ lidx < Len(futs)
    /\ futs[lidx + 1].pc = "done"
    /\ lmaps' = << insert(lmaps[1], futs[lidx + 1].out[1].name, futs[lidx + 1].out[1]) >>
    /\ lidx' = lidx + 1
    /\ UNCHANGED <<tpc, lim, sem, futs, polled, borrowed, pool>>
    /\ TaskFrame

\* monoio::start returns Ok(pkgs); i.borrow_mut().shrink_to_fit(); pkgs
ShrinkReturn ==
    /\ tpc = "await" /\ polled = 0
    /\ lidx = Len(futs)
    /\ tpc' = IF borrowed > 0 THEN "already_borrowed" ELSE "returned"
    /\ pool' = shrink_to_fit(pool)
    /\ UNCHANGED <<lim, sem, futs, polled, borrowed, lidx, lmaps>>
    /\ TaskFrame

NextTask ==
    \/ IncreaseLimit
    \/ ReadVersion
    \/ SpawnTasks
    \/ \E t \in 1..Len(futs) : Acquire(t) \/ ReadDesc(t) \/ BorrowMut(t) \/ ParseAndRelease(t)
    \/ Join
    \/ ShrinkReturn

SpecTask == InitTask /\ [][NextTask]_vars

\* the steps that start at a suspension point or in the main task
Resume ==
    \/ IncreaseLimit
    \/ ReadVersion
    \/ SpawnTasks
    \/ \E t \in 1..Len(futs) : Acquire(t) \/ ReadDesc(t)
    \/ Join
    \/ ShrinkReturn

\* the task the executor resumed runs on to its end
RunToEnd == tpc = "await" /\ polled # 0 /\ polled' = 0

\* the executor resumes whatever can go on, and a resumed task is run until
\* it suspends or ends
FairSpecTask == SpecTask /\ WF_vars(Resume) /\ WF_polled(RunToEnd)

(***************************************************************************)
(* Properties of the version comparator                                    *)
(***************************************************************************)
\* the least position at which two segment lists differ, 0 when one is a
\* prefix of the other
FirstDiff(x, y) ==
    LET L == IF Len(x) < Len(y) THEN Len(x) ELSE Len(y)
        D == {k \in 1..L : x[k] # y[k]}
    IN  IF D = {} THEN 0 ELSE CHOOSE k \in D : \A j \in D : k <= j

IsNumeric(seg) == seg.kind = "Err"

\* s is below t byte-wise: a proper prefix of t, or a smaller byte at the first
\* difference
BytewiseLess(s, t) ==
    \E k \in 1..Len(t) :
        /\ k <= Len(s) + 1
        /\ \A j \in 1..(k - 1) : s[j] = t[j]
        /\ (k = Len(s) + 1 \/ Byte(s[k]) < Byte(t[k]))

\* the segment lists of va and vb that decide the order, when two lists do:
\* main when the epochs agree, pkgrel when the mains agree as well
DecidingLists ==
    IF va.epoch # vb.epoch THEN <<>>
    ELSE IF va.version # vb.version THEN <<va.version, vb.version>>
    ELSE IF va.release # <<>> /\ vb.release # <<>> THEN <<va.release[1], vb.release[1]>>
    ELSE <<>>

\* the two segments at the first difference of the deciding lists
DecidingSegments ==
    IF DecidingLists = <<>> THEN <<>>
    ELSE LET k == FirstDiff(DecidingLists[1], DecidingLists[2])
         IN  IF k = 0 THEN <<>> ELSE <<DecidingLists[1][k], DecidingLists[2][k]>>

\* C8: an absent epoch compares as epoch 0: versioncmp("0:" + V, V) = Equal for
\* every parseable V without an epoch, and versioncmp(V, n + ":" + V) = Less
\* for every n > 0.
C8_AbsentEpochIsZero ==
    cpc = "done" =>
        /\ (vb.epoch = <<>> /\ a = <<"0", ":">> \o b) => ord = "Equal"
        /\ (va.epoch = <<>> /\ \E e \in EpochPrefixes \ {<<"0", ":">>} : b = e \o a)
              => ord = "Less"

\* C9 as claimed: at the first difference of one segment list, a numeric
\* segment against an alphabetic one ranks the version with the numeric
\* segment as Less.
C9_NumericBelowAlphabetic ==
    (cpc = "done" /\ DecidingSegments # <<>>) =>
        LET x == DecidingSegments[1]
            y == DecidingSegments[2]
        IN  /\ (IsNumeric(x) /\ ~IsNumeric(y)) => ord = "Less"
            /\ (~IsNumeric(x) /\ IsNumeric(y)) => ord = "Greater"

\* C9 amended: at the first difference of one segment list, an alphabetic
\* segment against a numeric one ranks the version with the alphabetic segment
\* as Less; two numeric segments compare by integer value and two alphabetic
\* segments byte-wise.
C9_AlphabeticBelowNumeric ==
    (cpc = "done" /\ DecidingSegments # <<>>) =>
        LET x == DecidingSegments[1]
            y == DecidingSegments[2]
        IN  /\ (~IsNumeric(x) /\ IsNumeric(y)) => ord = "Less"
            /\ (IsNumeric(x) /\ ~IsNumeric(y)) => ord = "Greater"
            /\ (IsNumeric(x) /\ IsNumeric(y)) => (ord = "Less" <=> x.n < y.n)
            /\ (IsNumeric(x) /\ IsNumeric(y)) => (ord = "Greater" <=> x.n > y.n)
            /\ (~IsNumeric(x) /\ ~IsNumeric(y)) => (ord = "Less" <=> BytewiseLess(x.s, y.s))
            /\ (~IsNumeric(x) /\ ~IsNumeric(y)) => (ord = "Greater" <=> BytewiseLess(y.s, x.s))

\* two versions compared whose mains agree on a first segment and then differ
\* in an alphabetic segment against a numeric one
C9_Witness ==
    /\ cpc = "done"
    /\ va.epoch = vb.epoch
    /\ FirstDiff(va.version, vb.version) > 1
    /\ ~IsNumeric(va.version[FirstDiff(va.version, vb.version)])
    /\ IsNumeric(vb.version[FirstDiff(va.version, vb.version)])
    /\ ord = "Less"

\* C10: the order on decomposed versions is decided by epoch first, then by
\* main, then by pkgrel: with different epochs the order is that of the epochs,
\* with equal epochs and different mains it is that of the mains (so
\* versioncmp("0.15.1-2", "0.15.1b-10") = Less), and with both equal an absent
\* pkgrel equals an absent one and is Less than any present one.
C10_EpochThenMainThenPkgrel ==
    cpc = "done" =>
        /\ va.epoch # vb.epoch =>
              ord = IF va.epoch = <<>> THEN "Less"
                    ELSE IF vb.epoch = <<>> THEN "Greater"
                    ELSE IF va.epoch[1] < vb.epoch[1] THEN "Less" ELSE "Greater"
        /\ (va.epoch = vb.epoch /\ va.version # vb.version) =>
              /\ ord # "Equal"
              /\ ord = segments_cmp(va.version, vb.version)
        /\ (va.epoch = vb.epoch /\ va.version = vb.version) =>
              /\ (va.release = <<>> /\ vb.release = <<>>) => ord = "Equal"
              /\ (va.release = <<>> /\ vb.release # <<>>) => ord = "Less"
              /\ (va.release # <<>> /\ vb.release = <<>>) => ord = "Greater"
              /\ (va.release # <<>> /\ vb.release # <<>>) =>
                    ord = segments_cmp(va.release[1], vb.release[1])
        /\ (/\ a = <<"0", ".", "1", "5", ".", "1", "-", "2">>
            /\ b = <<"0", ".", "1", "5", ".", "1", "b", "-", "1", "0">>) => ord = "Less"

\* two versions of equal epoch compared whose mains say Less and whose pkgrels
\* say Greater
C10_Witness ==
    /\ cpc = "done"
    /\ va.epoch = vb.epoch
    /\ segments_cmp(va.version, vb.version) = "Less"
    /\ release_cmp(va.release, vb.release) = "Greater"
    /\ ord = "Less"

\* x is a proper prefix of y
ProperPrefix(x, y) == Len(x) < Len(y) /\ SubSeq(y, 1, Len(x)) = x

\* C11: with equal epochs, a version whose main segment list is a proper prefix
\* of the other's is Less, and the other is Greater, whatever the kind of the
\* extra trailing segments.
C11_ProperPrefixIsLess ==
    (cpc = "done" /\ va.epoch = vb.epoch) =>
        /\ ProperPrefix(va.version, vb.version) => ord = "Less"
        /\ ProperPrefix(vb.version, va.version) => ord = "Greater"

\* two versions compared where the main of one is a proper prefix of the
\* other's, the extra segment is alphabetic and the pkgrels say Greater
C11_Witness ==
    /\ cpc = "done"
    /\ va.epoch = vb.epoch
    /\ ProperPrefix(va.version, vb.version)
    /\ ~IsNumeric(vb.version[Len(va.version) + 1])
    /\ release_cmp(va.release, vb.release) = "Greater"
    /\ ord = "Less"

Reversed(o) == CASE o = "Less" -> "Greater" [] o = "Greater" -> "Less" [] OTHER -> o

\* C12: versioncmp is a total order on parseable strings: a string equals
\* itself, versioncmp(a, b) is the reverse of versioncmp(b, a), the result is
\* one of Less, Equal, Greater, and a <= b with b <= c implies a <= c for every
\* parseable c of the bounded set.
C12_TotalOrder ==
    opc = "done" =>
        /\ ord \in {"Less", "Equal", "Greater"}
        /\ a = b => ord = "Equal"
        /\ ord = Reversed(ord_ba)
        /\ (ord # "Greater" /\ ord_bc # "Greater") => ord_ac # "Greater"

\* three strings compared where the first is below the second by its missing
\* epoch and the second below the third by its pkgrel
C12_Witness ==
    /\ opc = "done"
    /\ ord = "Less" /\ ord_ba = "Greater" /\ ord_bc = "Less" /\ ord_ac = "Less"
    /\ versionparse(a).epoch = <<>>
    /\ versionparse(b).epoch # <<>>
    /\ versionparse(b).release = <<>>
    /\ versionparse(c3).release # <<>>

\* the part of a version string between the epoch and the last '-', and the
\* part after the last '-' (<<>> when there is no '-')
MainPart(i) ==
    LET rest == Drop(i, epoch_len(i))
    IN  IF rsplit_dash(rest) > 0 THEN SubSeq(rest, 1, rsplit_dash(rest) - 1) ELSE rest

PkgrelPart(i) ==
    LET rest == Drop(i, epoch_len(i))
    IN  IF rsplit_dash(rest) > 0 THEN <<Drop(rest, rsplit_dash(rest))>> ELSE <<>>

\* the segment tokenizer takes the whole of part
WhollyConsumed(part) ==
    version_segment_parse(part).ok /\ version_segment_parse(part).rem = <<>>

\* C13: a version string whose main or pkgrel part is not wholly consumed by the
\* segment tokenizer is rejected by versionparse and by versioncmp: no parse
\* succeeds with a part of the input ignored.
C13_UnconsumedInputRejected ==
    cpc # "input" =>
        /\ ~WhollyConsumed(MainPart(a)) => (~versionparse(a).ok /\ cpc = "panicked")
        /\ (PkgrelPart(a) # <<>> /\ ~WhollyConsumed(PkgrelPart(a)[1]))
              => (~versionparse(a).ok /\ cpc = "panicked")

(***************************************************************************)
(* Properties of the descriptor parser                                     *)
(***************************************************************************)
\* t[i..j-1] is one record, '%' + alphanumerics + '%' + newline + value, and a
\* blank line follows it at j; the value has no blank line in it and does not
\* end in a newline
RecordAt(t, i, j) ==
    /\ t[j] = NL /\ t[j + 1] = NL
    /\ t[i] = "%"
    /\ \E k \in 1..(j - i - 3) :
          /\ \A l \in (i + 1)..(i + k) : t[l] \notin NotAlphanumeric
          /\ t[i + k + 1] = "%"
          /\ t[i + k + 2] = NL
          /\ \A l \in (i + k + 3)..(j - 2) : ~(t[l] = NL /\ t[l + 1] = NL)
          /\ (j - 1 >= i + k + 3) => t[j - 1] # NL

\* t from i on is a sequence of one or more records, each followed by a blank
\* line, and nothing else
RECURSIVE RecordsFrom(_, _)
RecordsFrom(t, i) ==
    \E j \in (i + 3)..(Len(t) - 1) :
        /\ RecordAt(t, i, j)
        /\ (j = Len(t) - 1 \/ RecordsFrom(t, j + 2))

\* the records of a descriptor joined by blank lines, and the final blank line
WellFormedDescriptor(t) == t = <<NL, NL>> \/ RecordsFrom(t, 1)

EndsWithBlank(t) == Len(t) >= 2 /\ t[Len(t) - 1] = NL /\ t[Len(t)] = NL

\* C14: parse_to_map accepts a text exactly when it is a sequence of well-formed
\* records followed by the trailing double newline; a text without the final
\* "\n\n" or with a record whose header is not '%' + alphanumerics + '%' +
\* newline is rejected fatally: no map and no package come of it.
C14_AcceptedIffWellFormed ==
    dpc # "input" =>
        /\ dmap # <<>> <=> WellFormedDescriptor(text)
        /\ ~EndsWithBlank(text) => dmap = <<>>
        /\ dmap = <<>> => (dpc = "panicked" /\ pkg = <<>>)

\* an accepted descriptor of several records, one of them with a value of two
\* lines
C14_Witness ==
    /\ dpc = "mapped"
    /\ dmap # <<>>
    /\ Cardinality(DOMAIN dmap[1]) > 2
    /\ \E k \in DOMAIN dmap[1] : Len(split_newline(dmap[1][k])) = 2

RequiredKeys ==
    {K.BASE, K.NAME, K.VERSION, K.ARCH, K.PACKAGER, K.BUILDDATE, K.URL, K.LICENSE, K.DESC}

\* the key is absent from mm, or its value satisfies P
Numeric(s) == u64_from_str(s) # <<>>
Decodes(s) == b64_decode(s) # <<>>

\* C15: from_str returns a Package only when every required key is present
\* and every present field is well-formed (a known ARCH, VALIDATION or XDATA
\* tag, base64 digests, numeric timestamps and sizes); otherwise the call is
\* fatal and returns no record.
C15_OnlyWellFormedAccepted ==
    /\ dpc = "panicked" => pkg = <<>>
    /\ dpc = "done" =>
          LET mm == dmap[1]
          IN  /\ pkg # <<>>
              /\ RequiredKeys \subseteq DOMAIN mm
              /\ mm[K.ARCH] \in ArchTags
              /\ K.VALIDATION \in DOMAIN mm => first_line(mm[K.VALIDATION]) \in ValidationTags
              /\ K.XDATA \in DOMAIN mm => mm[K.XDATA] \in XDataTags
              /\ K.MD5SUM \in DOMAIN mm => Decodes(mm[K.MD5SUM])
              /\ K.SHA256SUM \in DOMAIN mm => Decodes(mm[K.SHA256SUM])
              /\ Numeric(mm[K.BUILDDATE])
              /\ K.INSTALLDATE \in DOMAIN mm => Numeric(mm[K.INSTALLDATE])
              /\ K.SIZE \in DOMAIN mm => Numeric(mm[K.SIZE])
              /\ (K.ISIZE \in DOMAIN mm /\ K.SIZE \notin DOMAIN mm) => Numeric(mm[K.ISIZE])
              /\ K.CSIZE \in DOMAIN mm => Numeric(mm[K.CSIZE])

\* C16: the Package of an accepted descriptor with a SHA256SUM (an MD5SUM) key
\* has sha256sum (md5sum) present and equal to the base64 decoding of the
\* value; a value that does not decode is fatal.
C16_DigestsDecoded ==
    dpc = "done" =>
        /\ K.MD5SUM \in DOMAIN dmap[1] =>
              /\ Decodes(dmap[1][K.MD5SUM])
              /\ pkg[1].md5sum = b64_decode(dmap[1][K.MD5SUM])
        /\ K.SHA256SUM \in DOMAIN dmap[1] =>
              /\ Decodes(dmap[1][K.SHA256SUM])
              /\ pkg[1].sha256sum = b64_decode(dmap[1][K.SHA256SUM])

\* C17: the replaces set of a Package the parser returns does not contain the
\* package's own name handle.
C17_ReplacesExcludesOwnName ==
    (dpc = "done" /\ pkg[1].replaces # <<>>) => pkg[1].name \notin pkg[1].replaces[1]

(***************************************************************************)
(* Properties of the string pool                                           *)
(***************************************************************************)
\* the descriptor files parsed so far, as <<database, position>>
ParsedFiles ==
    {f \in (1..Len(lmaps)) \X (1..MaxFiles + 1) :
        /\ f[2] <= Len(files.descs[f[1]])
        /\ (f[1] < ldb \/ (f[1] = ldb /\ f[2] <= lidx))}

\* the NAME value of a descriptor file: NAME is the first record of every file
NameIn(f) == entry(files.descs[f[1]][f[2]], 1).value

Considered == {p \in local : p.name \notin ignore}

\* the versions a complete run parses: those of the considered installed
\* packages and of the repository entries of the same name
MustParse ==
    Considered \cup {syncs[q[1]][q[2]] : q \in {q \in Positions :
                         \E p \in Considered : syncs[q[1]][q[2]].name = p.name}}

\* C28: update_candidates returns the complete list or nothing.  The version
\* of the installed package is parsed before a repository is consulted for it;
\* the planner returns only when every version it has to parse does parse;
\* it aborts only for such a version, never for the version of an ignored
\* package or of an entry met through replaces alone; and an abort hands
\* back no triple.
C28_CompleteListOrNothing ==
    /\ pc = "inner" => (cur \in Considered /\ Parses(cur))
    /\ pc = "done" => \A p \in MustParse : Parses(p)
    /\ pc = "panicked" => (upgrades = <<>> /\ \E p \in MustParse : ~Parses(p))
    /\ \A k \in 1..Len(upgrades) :
          /\ upgrades[k][2] \in Considered /\ Parses(upgrades[k][2])
          /\ upgrades[k][3].name = upgrades[k][2].name => Parses(upgrades[k][3])

\* an abort after a triple was pushed: the installed package of the upgrade
\* has been dealt with, and the package the planner stopped at was not the
\* first
C28_Witness ==
    /\ pc = "panicked"
    /\ upgrades = <<>>
    /\ todo = {}
    /\ \E p \in Considered : \E q \in Positions :
          /\ Parses(p)
          /\ \A e \in Positions : syncs[e[1]][e[2]].name = p.name => Parses(syncs[e[1]][e[2]])
          /\ is_upgrade(p, syncs[q[1]][q[2]])
    /\ \E p \in Considered : ~Parses(p)

\* the VALIDATION value of a descriptor file, <<>> when it has none
ValidationIn(t) ==
    LET mm == parse_to_map(t)
    IN  IF mm # <<>> /\ K.VALIDATION \in DOMAIN mm[1] THEN <<mm[1][K.VALIDATION]>> ELSE <<>>

\* the value lists several entries, and the first one is a known tag
SeveralValidations(t) ==
    /\ ValidationIn(t) # <<>>
    /\ Len(split_newline(ValidationIn(t)[1])) > 1
    /\ split_newline(ValidationIn(t)[1])[1] \in ValidationTags

\* C27: a descriptor whose VALIDATION value lists several entries is accepted
\* by the loaders: the load does not stop at it, and the package loaded from
\* it (the last of its name in its database) keeps the first entry and
\* nothing of the later ones.
C27_FirstValidationEntryKept ==
    /\ (lpc = "panicked" /\ version_accepted(files.version)) =>
          ~SeveralValidations(files.descs[ldb][lidx + 1])
    /\ lpc \in {"load", "loaded", "shrunk"} =>
          \A f \in ParsedFiles :
              (/\ SeveralValidations(files.descs[f[1]][f[2]])
               /\ \A g \in ParsedFiles :
                     (g[1] = f[1] /\ g[2] > f[2]) => NameIn(g) # NameIn(f)) =>
                  \E k \in DOMAIN lmaps[f[1]] :
                      /\ r(k) = NameIn(f)
                      /\ lmaps[f[1]][k].validation =
                            <<split_newline(ValidationIn(files.descs[f[1]][f[2]])[1])[1]>>

(***************************************************************************)
(* Properties of the configuration reader, stated on the file as written   *)
(***************************************************************************)
\* the headers of the file; 0 stands for the start of the file, whose lines
\* belong to the section ""
Headers == {0} \cup {j \in DOMAIN ifile : ifile[j].kind = "section"}

HeaderName(h) == IF h = 0 THEN <<>> ELSE ifile[h].key

\* the lines between the header h and the next header
Body(h) == {j \in DOMAIN ifile : j > h /\ \A g \in (h + 1)..j : ifile[g].kind # "section"}

\* the lines under any header named n
Named(n) == UNION {Body(h) : h \in {g \in Headers : HeaderName(g) = n}}

\* the values of the key=value lines of key k among the first n lines of the
\* file that are in J, in the order of the file
RECURSIVE ValuesAt(_, _, _)
ValuesAt(J, k, n) ==
    IF n = 0 THEN <<>>
    ELSE ValuesAt(J, k, n - 1)
         \o (IF n \in J /\ ifile[n].kind = "kv" /\ ifile[n].key = k THEN <<ifile[n].val>> ELSE <<>>)

\* the map the lines J stand for: a key for every key=value and key-only
\* line, with the values of its key=value lines
Written(J) ==
    [k \in {ifile[j].key : j \in {g \in J : ifile[g].kind \in {"kv", "key"}}}
        |-> ValuesAt(J, k, Len(ifile))]

\* the header of the section the iterator yielded last
LastHeader == CHOOSE h \in Headers : Cardinality({g \in Headers : g < h}) = isec

\* C19: the map stored for a section body, at the moment it is stored, holds
\* for every key of the body the values of its key=value lines in the order
\* of the file, and nothing for comment lines and key-only lines: the body
\* before the first header (in prelude, and under "" at the end) and the body
\* of each header as the iterator yields it.
C19_SameKeyAccumulates ==
    /\ ipc = "sections" => prelude = Written(Body(0))
    /\ (ipc = "sections" /\ isec > 0) => ret[HeaderName(LastHeader)] = Written(Body(LastHeader))
    /\ ipc = "done" => ret[<<>>] = Written(Body(0))

\* a body just stored has two key=value lines of one key with different
\* values, and a comment or key-only line as well
C19_Witness ==
    /\ ipc = "sections" /\ isec > 0
    /\ \E k \in DOMAIN ret[HeaderName(LastHeader)] :
          LET l == ret[HeaderName(LastHeader)][k]
          IN  Len(l) = 2 /\ l[1] # l[2]
    /\ \E j \in Body(LastHeader) : ifile[j].kind \in {"comment", "key"}

\* C20: when sec_kv_map returns, the section stored under a name is the
\* key-wise merge of all the bodies under headers of that name: every key of
\* any of them, with the values of all of them in the order of the file.
C20_SameNameSectionsMerged ==
    ipc = "done" =>
        \A h \in Headers : ret[HeaderName(h)] = Written(Named(HeaderName(h)))

(***************************************************************************)
(* Properties of extract_relevant_config, stated on the configuration as   *)
(* parsed                                                                  *)
(***************************************************************************)
\* /etc/pacman.conf as parse_pacman_config gives it, before anything is removed
Parsed == parse_pacman_config(xin.conf)

\* the values of key k under [options], <<>> when the section or the key is absent
OptionValues(k) ==
    IF W.options \in DOMAIN Parsed /\ k \in DOMAIN Parsed[W.options]
    THEN Parsed[W.options][k] ELSE <<>>

\* C21: once the architecture has been selected, an Architecture that is
\* absent, has no value or is "auto" after trimming has given the host
\* architecture, "x86_64" has given x86_64, and the function went on; any
\* other value has ended the call.
C21_ArchitectureSelection ==
    xpc \notin {"read", "arch"} =>
        LET vs == OptionValues(W.Architecture)
        IN  IF vs = <<>> THEN arch = xin.host
            ELSE IF trim(vs[1]) = W.auto THEN arch = xin.host
            ELSE IF trim(vs[1]) = W.x86_64 THEN arch = W.x86_64
            ELSE xpc = "panicked" /\ arch = <<>>

\* the maximal runs of characters of s that are not whitespace, in order
RECURSIVE WhitespaceTokens(_)
WhitespaceTokens(s) ==
    IF s = <<>> THEN <<>>
    ELSE IF s[1] \in Multispace THEN WhitespaceTokens(Tail(s))
    ELSE LET n == take_while(s, 1, Except(s, Multispace))
         IN  <<SubSeq(s, 1, n - 1)>> \o WhitespaceTokens(SubSeq(s, n, Len(s)))

\* C23: the ignore list returned is the sequence of the whitespace-separated
\* tokens of the first IgnorePkg value under [options], spaces and tabs
\* alike, and is empty when there is no IgnorePkg value.
C23_IgnoreListIsFirstValueTokens ==
    xpc = "done" =>
        ignores = IF OptionValues(W.IgnorePkg) = <<>> THEN <<>>
                  ELSE WhitespaceTokens(OptionValues(W.IgnorePkg)[1])

\* the URL of a section body v as the claim has it: the first Server value,
\* otherwise the first Server value of the "" section of the first Include
\* target; <<>> when there is none
ClaimedServer(v) ==
    IF remove_first(v, W.Server) # <<>> THEN remove_first(v, W.Server)
    ELSE IF remove_first(v, W.Include) = <<>> THEN <<>>
    ELSE IF read_to_string(remove_first(v, W.Include)[1]) = <<>> THEN <<>>
    ELSE remove_first(parse_pacman_config(read_to_string(remove_first(v, W.Include)[1])[1])[<<>>],
                      W.Server)

\* s with every $arch replaced by ar and every $repo by k, in one pass
RECURSIVE Rewritten(_, _, _)
Rewritten(s, ar, k) ==
    IF s = <<>> THEN <<>>
    ELSE IF starts_with(s, W.arch) THEN ar \o Rewritten(SubSeq(s, Len(W.arch) + 1, Len(s)), ar, k)
    ELSE IF starts_with(s, W.repo) THEN k \o Rewritten(SubSeq(s, Len(W.repo) + 1, Len(s)), ar, k)
    ELSE <<s[1]>> \o Rewritten(Tail(s), ar, k)

\* C22: when the function returns, every section other than "" and options
\* has a URL by the rule of the claim (a section without one is fatal), and
\* the map holds that URL with $arch and $repo replaced.
C22_RepositoryUrlRule ==
    xpc = "done" =>
        \A k \in DOMAIN Parsed \ {<<>>, W.options} :
            /\ ClaimedServer(Parsed[k]) # <<>>
            /\ k \in DOMAIN repos
            /\ repos[k] = Rewritten(ClaimedServer(Parsed[k])[1], arch, k)

(***************************************************************************)
(* Properties of the loaders                                               *)
(***************************************************************************)
\* the contents of ALPM_DB_VERSION that denote the number 9: within the
\* surrounding whitespace an optional "+", any zeros, and a 9
DenotesNine(v) ==
    LET d == IF trim(v) # <<>> /\ trim(v)[1] = "+" THEN Tail(trim(v)) ELSE trim(v)
    IN  d # <<>> /\ d[Len(d)] = "9" /\ \A j \in 1..(Len(d) - 1) : d[j] = "0"

\* C24: when ALPM_DB_VERSION does not denote 9, the load never gets beyond
\* the check of the version: no descriptor of any database is parsed, the
\* pool stays empty and no map is built or returned.
C24_OnlyVersionNineLoads ==
    (lpc # "idle" /\ ~DenotesNine(files.version)) =>
        /\ lpc \in {"version", "panicked"}
        /\ ldb = 1 /\ lidx = 0
        /\ pool = <<>>
        /\ \A k \in DOMAIN lmaps : lmaps[k] = <<>>

\* a database with package directories has been refused for its version
C24_Witness ==
    /\ lpc = "panicked"
    /\ ~DenotesNine(files.version)
    /\ files.descs[1] # <<>>

(***************************************************************************)
(* Properties of the tokenizer                                             *)
(***************************************************************************)
\* the segment lists of a decomposition: main, and pkgrel when present
SegmentLists(v) == {v.version} \cup {v.release[j] : j \in DOMAIN v.release}

\* the string of the test of versionparse
TestVersion == <<"2", "0", "2", "5", ".", "Q", "1", ".", "2", "-", "1">>

\* C26: every segment of main and of pkgrel is one run of letters or one run
\* of digits, so that a boundary between a letter and a digit starts a new
\* segment, and it is numeric iff it is a run of digits; "2025.Q1.2-1" has no
\* epoch, the main segments 2025, Q, 1, 2 and a pkgrel.  This is stated for
\* the decompositions of both copies of versionparse.
C26_LetterDigitBoundarySplits ==
    cpc \in {"done", "db_done"} =>
        /\ \A v \in {va, vb} : \A l \in SegmentLists(v) : \A j \in DOMAIN l :
              l[j].kind = "Ok" => \A x \in DOMAIN l[j].s : l[j].s[x] \in Letters
        /\ a = TestVersion =>
              /\ va.epoch = <<>>
              /\ va.version = <<SegErr(2025), SegOk(<<"Q">>), SegErr(1), SegErr(2)>>
              /\ va.release # <<>>


(***************************************************************************)
(* Properties of the task-based local loader                               *)
(***************************************************************************)
\* the main task is suspended in f.await on a task that has not finished
MainAwaitsTask == tpc = "await" /\ lidx < Len(futs) /\ futs[lidx + 1].pc # "done"

\* C25: no operation of the library suspends waiting on another one: during
\* a local database load no task is suspended in acquire while other tasks
\* hold every permit, and the main task is never suspended on a task it
\* spawned.
C25_NoUnitWaitsOnAnother ==
    /\ ~(waiters # {} /\ holders # {} /\ sem = 0)
    /\ ~MainAwaitsTask

\* C29: the interner is never borrowed mutably while another borrow of it is
\* live: a borrow is live only while the task that took it is running, in the
\* poll that took it, and the loader borrows the pool for shrink_to_fit only
\* when every task has finished.
C29_NoConflictingBorrow ==
    /\ tpc # "already_borrowed"
    /\ borrowed <= 1
    /\ borrowed = 1 => (polled # 0 /\ futs[polled].pc = "convert")
    /\ tpc = "returned" => (borrowed = 0 /\ \A t \in 1..Len(futs) : futs[t].pc = "done")

\* a task converts its descriptor, holding the borrow, while another task is
\* suspended in the read of its own
C29_Witness ==
    /\ borrowed = 1
    /\ \E t \in 1..Len(futs) : \E u \in 1..Len(futs) :
          t # u /\ futs[t].pc = "convert" /\ futs[u].pc = "read"

\* a local database the loader has no reason to refuse: version 9, every
\* descriptor well-formed, no two directories of one package
AcceptableDb ==
    /\ version_accepted(files.version)
    /\ \A t \in 1..Len(files.descs[1]) : from_str(<<>>, files.descs[1][t], debug).pkg # <<>>
    /\ \A t \in 1..Len(files.descs[1]) : \A u \in 1..Len(files.descs[1]) :
          NameIn(<<1, t>>) = NameIn(<<1, u>>) => t = u

\* the loader has returned a map that holds the record of every directory
ReturnedEveryPackage ==
    /\ tpc = "returned"
    /\ \A t \in 1..Len(files.descs[1]) :
          \E k \in DOMAIN lmaps[1] : r(k) = NameIn(<<1, t>>)

\* C30: the task-based loader terminates with every package: on a database
\* it has no reason to refuse, every task eventually obtains a permit and
\* completes, and the loader returns the map with the record of every
\* package directory.
C30_TerminatesWithEveryPackage == <>(AcceptableDb => ReturnedEveryPackage)

====
